---- MODULE Spec2Model ----
(***************************************************************************)
(* Model of the probe supervisor of uptime-forge (src/src/checker.rs,      *)
(* src/src/config.rs, src/src/main.rs): the per-endpoint runner tasks, the *)
(* config reload loop with its reconciliation, the initial sweep and the   *)
(* /reload handler's send on the bounded reload channel.                   *)
(***************************************************************************)
EXTENDS Naturals, Integers, Sequences, FiniteSets, TLC

\* ------------------------------------------------------------------ bounds
\* reload ticks the reload loop may start
MaxReloads == 1
\* interval timers that may fire for one runner (ticks after its first)
MaxTicks == 1
\* /reload handlers that may be suspended in send at the same time
MaxBlockedSenders == 1

\* ------------------------------------------------------- names and values
\* endpoint names, listed in lower-case order (the sort key of a sweep)
NameSeq == <<"a", "b">>
Names == {NameSeq[i] : i \in 1..Len(NameSeq)}

\* Endpoint descriptors, compared by value (derive(PartialEq)); the fields
\* kept are the two that Config::validate compares.
Endpoint(i, t) == [interval |-> i, timeout |-> t]
EndpointValues == {Endpoint(2, 1), Endpoint(3, 1), Endpoint(1, 1)}

EmptyMap == [x \in {} |-> x]
MapInsert(m, k, v) == [x \in DOMAIN m \cup {k} |-> IF x = k THEN v ELSE m[x]]
MapRemoveAll(m, ks) == [x \in DOMAIN m \ ks |-> m[x]]

\* every value of HashMap<String, Endpoint> over the names
Configs == UNION {[S -> EndpointValues] : S \in SUBSET Names}

\* what std::fs::read_to_string and toml::from_str can yield for the file
FileContents ==
    {[kind |-> "unreadable", endpoints |-> EmptyMap],
     [kind |-> "parse_error", endpoints |-> EmptyMap]}
    \cup {[kind |-> "toml", endpoints |-> c] : c \in Configs}

\* ------------------------------------------------------------ Config::load
\* validate that accepts a timeout equal to the interval
validate_EqualAllowed(endpoints) ==
    {n \in DOMAIN endpoints : endpoints[n].timeout > endpoints[n].interval}

\* Config::validate: the names whose descriptor is a validation error
validate(endpoints) ==
    {n \in DOMAIN endpoints : endpoints[n].timeout >= endpoints[n].interval}

ConfigLoad(content) ==
    IF content.kind = "unreadable"
    THEN [ok |-> FALSE, err |-> "read", endpoints |-> EmptyMap]
    ELSE IF content.kind = "parse_error"
    THEN [ok |-> FALSE, err |-> "parse", endpoints |-> EmptyMap]
    ELSE IF validate(content.endpoints) # {}
    THEN [ok |-> FALSE, err |-> "validation", endpoints |-> EmptyMap]
    ELSE [ok |-> TRUE, err |-> "none", endpoints |-> content.endpoints]

\* Config::validate: the names with the warning on an interval under 10 s;
\* Config::load logs the warnings and does nothing else with them
validate_warnings(endpoints) ==
    {n \in DOMAIN endpoints : endpoints[n].interval < 10}

ValidConfigs == {c \in Configs : ConfigLoad([kind |-> "toml", endpoints |-> c]).ok}

\* ----------------------------------------------------------------- probes
\* check_endpoint: the outcome of one tick for a name and its descriptor
check_endpoint(name, endpoint) == [name |-> name, endpoint |-> endpoint]

\* the names of S in lower-case order
SortedNames(S) == SelectSeq(NameSeq, LAMBDA n : n \in S)

\* check_all_endpoints: one result per endpoint, sorted by lower-cased name
check_all_endpoints(endpoints) ==
    LET ns == SortedNames(DOMAIN endpoints)
    IN  [i \in 1..Len(ns) |-> check_endpoint(ns[i], endpoints[ns[i]])]

\* InsertResults that stops before the last result
InsertResults_DropLast(m, results) ==
    [n \in DOMAIN m \cup {results[i].name : i \in 1..(Len(results) - 1)} |->
        IF \E i \in 1..(Len(results) - 1) : results[i].name = n
        THEN results[CHOOSE i \in 1..(Len(results) - 1) : results[i].name = n]
        ELSE m[n]]

\* inserting every result of a sweep into the status map
InsertResults(m, results) ==
    [n \in DOMAIN m \cup {results[i].name : i \in 1..Len(results)} |->
        IF \E i \in 1..Len(results) : results[i].name = n
        THEN results[CHOOSE i \in 1..Len(results) : results[i].name = n]
        ELSE m[n]]

\* ------------------------------------------------------- probe primitives
\* Endpoint.retries is a u32; the model keeps the wrap-around of the type at
\* a width of RetryBits bits, so U32Max stands for u32::MAX
RetryBits == 2
U32Modulus == 2 ^ RetryBits
U32Max == U32Modulus - 1

\* the descriptor fields read by check_endpoint and the three primitives
ProbeEndpoint(ct, r, er) ==
    [check_type |-> ct, retries |-> r, expected_records |-> er]

ProbeEndpoints ==
    {ProbeEndpoint(ct, r, FALSE) : ct \in {"http", "tcp", "dns"}, r \in 0..U32Max}
    \cup {ProbeEndpoint("dns", r, TRUE) : r \in 0..U32Max}

\* base_result: is_up false and the four optional fields None
base_result(name, endpoint) ==
    [name |-> name, is_up |-> FALSE, status_code |-> "none",
     response_time_ms |-> "none", error |-> "none", error_type |-> "none"]

\* what the network and the client library can answer to one HTTP probe
HttpEvents ==
    {"client_build_error", "status_expected", "status_other", "send_timeout",
     "send_connect_dns", "send_connect_tls", "send_connect", "send_other"}

\* classify_reqwest_error, on the error of request.send()
classify_reqwest_error(ev) ==
    IF ev = "send_timeout" THEN "timeout"
    ELSE IF ev \in {"send_connect_dns", "send_connect_tls", "send_connect"}
    THEN IF ev = "send_connect_dns" THEN "dns"
         ELSE IF ev = "send_connect_tls" THEN "tls"
         ELSE "connection"
    ELSE "unknown"

\* check_http: the outcome on each terminal path
check_http(name, endpoint, ev) ==
    LET result == base_result(name, endpoint)
    IN  IF ev = "client_build_error"
        THEN [result EXCEPT !.error = "failed to build HTTP client",
                            !.error_type = "client_build"]
        ELSE IF ev \in {"status_expected", "status_other"}
        THEN LET is_up == (ev = "status_expected")
                 seen == [result EXCEPT !.is_up = is_up,
                                        !.status_code = ev,
                                        !.response_time_ms = "some"]
             IN  IF ~is_up
                 THEN [seen EXCEPT !.error = "expected status, got other",
                                   !.error_type = "status_mismatch"]
                 ELSE seen
        ELSE [result EXCEPT !.response_time_ms = "some",
                            !.error = ev,
                            !.error_type = classify_reqwest_error(ev)]

\* what address resolution and the connect can answer to one TCP probe
TcpEvents ==
    {"no_addresses", "resolve_error", "connected", "write_failed",
     "connect_refused", "connect_error", "connect_timeout"}

\* check_tcp: the outcome on each terminal path
check_tcp(name, endpoint, ev) ==
    LET result == base_result(name, endpoint)
    IN  IF ev = "no_addresses"
        THEN [result EXCEPT !.error = "no addresses found", !.error_type = "dns"]
        ELSE IF ev = "resolve_error"
        THEN [result EXCEPT !.error = "failed to resolve address",
                            !.error_type = "dns"]
        ELSE IF ev = "connected"
        THEN [result EXCEPT !.is_up = TRUE, !.response_time_ms = "some"]
        ELSE IF ev = "write_failed"
        THEN [result EXCEPT !.response_time_ms = "some",
                            !.error = "connection established but write failed",
                            !.error_type = "connection"]
        ELSE IF ev \in {"connect_refused", "connect_error"}
        THEN [result EXCEPT !.response_time_ms = "some",
                            !.error = ev,
                            !.error_type = IF ev = "connect_refused"
                                           THEN "tcp_refused" ELSE "connection"]
        ELSE [result EXCEPT !.response_time_ms = "some",
                            !.error = "connection timed out",
                            !.error_type = "timeout"]

\* what the resolver can answer to one DNS probe: records that include every
\* expected record, records that miss one, no record, an error, no answer
DnsEvents ==
    {"records_match", "records_differ", "no_records", "lookup_nxdomain",
     "lookup_error", "lookup_timeout"}

\* check_dns: the outcome on each terminal path
check_dns(name, endpoint, ev) ==
    LET result == [base_result(name, endpoint) EXCEPT !.response_time_ms = "some"]
    IN  IF ev \in {"records_match", "records_differ", "no_records"}
        THEN IF ~endpoint.expected_records
             THEN IF ev = "no_records"
                  THEN [result EXCEPT !.error = "DNS resolution returned no records",
                                      !.error_type = "dns"]
                  ELSE [result EXCEPT !.is_up = TRUE]
             ELSE IF ev = "records_match"
                  THEN [result EXCEPT !.is_up = TRUE]
                  ELSE [result EXCEPT !.error = "expected records, got others",
                                      !.error_type = "dns_mismatch"]
        ELSE IF ev \in {"lookup_nxdomain", "lookup_error"}
        THEN [result EXCEPT !.error = ev,
                            !.error_type = IF ev = "lookup_nxdomain"
                                           THEN "dns_nxdomain" ELSE "dns"]
        ELSE [result EXCEPT !.error = "DNS lookup timed out",
                            !.error_type = "timeout"]

\* the answers one attempt on the endpoint can meet
ProbeEvents(endpoint) ==
    IF endpoint.check_type = "http" THEN HttpEvents
    ELSE IF endpoint.check_type = "tcp" THEN TcpEvents
    ELSE DnsEvents

\* check_endpoint: the match on endpoint.check_type
probe(name, endpoint, ev) ==
    IF endpoint.check_type = "http" THEN check_http(name, endpoint, ev)
    ELSE IF endpoint.check_type = "tcp" THEN check_tcp(name, endpoint, ev)
    ELSE check_dns(name, endpoint, ev)

\* check_endpoint: endpoint.retries + 1 in u32 arithmetic; the sum overflows
\* for u32::MAX, which panics in a build with overflow checks and wraps to 0
\* in a build without
MaxAttempts(retries) == (retries + 1) % U32Modulus

AttemptsOverflow(retries) == retries + 1 >= U32Modulus

\* ---------------------------------------------------------- reconciliation
\* apply_config_update: the four name lists computed from the snapshot
Removed(old, new) == {k \in DOMAIN old : k \notin DOMAIN new}

Added(old, new) == {k \in DOMAIN new : k \notin DOMAIN old}

Changed(old, new) == {k \in DOMAIN new : k \in DOMAIN old /\ old[k] # new[k]}

\* Unchanged without the !added.contains(k) filter
Unchanged_IgnoreAdded(old, new) ==
    {k \in DOMAIN new : k \notin Changed(old, new)}

Unchanged(old, new) ==
    {k \in DOMAIN new : k \notin Added(old, new) /\ k \notin Changed(old, new)}

Partition(old, new) ==
    [removed |-> Removed(old, new), added |-> Added(old, new),
     changed |-> Changed(old, new), unchanged |-> Unchanged(old, new)]

NoDiff == [removed |-> {}, added |-> {}, changed |-> {}, unchanged |-> {}]

\* SpawnSeq that restarts the unchanged names as well
SpawnSeq_RestartsAll(d) ==
    SortedNames(d.changed) \o SortedNames(d.added) \o SortedNames(d.unchanged)

\* the runners spawned by one reconciliation, in spawn order: the changed
\* names, then the added names
SpawnSeq(d) == SortedNames(d.changed) \o SortedNames(d.added)

\* TokensToCancel without the token.cancel() of the changed loop
TokensToCancel_RemovedOnly(tasks, d) ==
    {tasks[n] : n \in d.removed \cap DOMAIN tasks}

\* tokens signalled by the removed and the changed loops: tasks.remove(name)
\* followed by token.cancel()
TokensToCancel(tasks, d) ==
    {tasks[n] : n \in (d.removed \cup d.changed) \cap DOMAIN tasks}

\* TasksAfterUpdate without the tasks.remove(name) of the removed loop
TasksAfterUpdate_KeepRemoved(tasks, d, first) ==
    LET kept == MapRemoveAll(tasks, d.changed)
        sp == SpawnSeq(d)
    IN  [n \in DOMAIN kept \cup {sp[i] : i \in 1..Len(sp)} |->
            IF \E i \in 1..Len(sp) : sp[i] = n
            THEN first + (CHOOSE i \in 1..Len(sp) : sp[i] = n) - 1
            ELSE kept[n]]

\* the handle map after the three loops; first is the first fresh token
TasksAfterUpdate(tasks, d, first) ==
    LET kept == MapRemoveAll(tasks, d.removed \cup d.changed)
        sp == SpawnSeq(d)
    IN  [n \in DOMAIN kept \cup {sp[i] : i \in 1..Len(sp)} |->
            IF \E i \in 1..Len(sp) : sp[i] = n
            THEN first + (CHOOSE i \in 1..Len(sp) : sp[i] = n) - 1
            ELSE kept[n]]

\* StateAfterUpdate without the results.remove(name) of the changed loop
StateAfterUpdate_RemovedOnly(results, d) == MapRemoveAll(results, d.removed)

\* the status map after results.remove(name) of the removed and changed loops
StateAfterUpdate(results, d) == MapRemoveAll(results, d.removed \cup d.changed)

\* EndpointsToCheck without the unchanged names
EndpointsToCheck_NoUnchanged(new, d) ==
    [k \in {n \in DOMAIN new : n \in d.added \/ n \in d.changed} |-> new[k]]

\* the endpoints handed to the re-sweep
EndpointsToCheck(new, d) ==
    [k \in {n \in DOMAIN new : n \in d.added \/ n \in d.changed \/ n \in d.unchanged}
        |-> new[k]]

\* a runner task as spawn_endpoint_checker creates it
NewRunner(name, endpoint) ==
    [name |-> name, endpoint |-> endpoint, pc |-> "probe"]

\* SelectReady without the cancel_token.cancelled() arm
SelectReady_NoCancelArm(timer_fired, is_cancelled) ==
    IF timer_fired THEN {"sleep"} ELSE {}

\* tokio::select! over sleep(interval) and cancel_token.cancelled(): the
\* branches that are ready; any one of them may be taken
SelectReady(timer_fired, is_cancelled) ==
    (IF timer_fired THEN {"sleep"} ELSE {})
    \cup (IF is_cancelled THEN {"cancelled"} ELSE {})

\* AfterLoad with a failed load treated as an empty configuration
AfterLoad_ErrAsEmpty(res, current) ==
    IF res.endpoints = current THEN "eq_sweep" ELSE "apply"

\* AfterLoad with the equivalence path skipping the re-sweep
AfterLoad_EqualSkips(res, current) ==
    IF ~res.ok \/ res.endpoints = current THEN "select" ELSE "apply"

\* the arm of the reload loop's match on Config::load
AfterLoad(res, current) ==
    IF ~res.ok THEN "select"
    ELSE IF res.endpoints = current THEN "eq_sweep"
    ELSE "apply"

\* ------------------------------------------------------------------ state
VARIABLES
    config,            \* main: the configuration loaded at startup
    db_pool,           \* TRUE when DATABASE_URL selected a backend
    reload_interval,   \* server.reload_config_interval
    main_pc,           \* position of main
    main_results,      \* initial_check: results of the initial sweep
    main_todo,         \* initial_check: results not yet appended
    state,             \* CheckResultsState: name -> latest outcome
    events,            \* uptime_events: per endpoint name, the appended events
    current_endpoints, \* the configuration snapshot of the reload loop
    active_tasks,      \* ActiveTasks: name -> cancellation token
    cancelled,         \* tokens on which cancel() was called
    next_token,        \* the next fresh CancellationToken
    runners,           \* token -> the runner task spawned with it
    fired,             \* tokens whose runner's sleep(interval) has elapsed
    timer_fires,       \* runner interval timers that have elapsed so far
    reload_pc,         \* position of the reload loop
    reload_count,      \* reload ticks started
    load_error,        \* the error of the tick's Config::load, or "none"
    new_config,        \* the tick's new_config.endpoints
    diff,              \* the tick's removed/added/changed/unchanged
    check_results,     \* the tick's sweep results
    append_todo,       \* the tick's results not yet appended
    reload_chan,       \* messages queued in the reload channel (capacity 1)
    blocked_senders,   \* /reload handlers suspended in send(()).await
    last_read,         \* names returned by the last get_sorted_results
    probe_endpoint,    \* the descriptor of the runner under the retry driver
    overflow_checks,   \* TRUE when the build panics on integer overflow
    retry_pc,          \* position of that runner in its tick
    attempt,           \* check_endpoint: the loop variable
    max_attempts,      \* check_endpoint: endpoint.retries + 1
    last_result,       \* check_endpoint: last_result
    calls,             \* is_up of each primitive invocation of this call
    last_call,         \* the outcome of the latest primitive invocation
    tick_ops,          \* the appends and status writes of the current tick
    lock_pc,           \* per task, its position between lock and I/O steps
    lock_writer,       \* per RwLock, the task holding the write guard
    lock_readers,      \* per RwLock, the tasks holding a read guard
    time_range,        \* get_all_endpoint_buckets: range
    endpoint_names,    \* get_all_endpoint_buckets: endpoint_names
    bucket_todo,       \* the names the for loop has not reached yet
    bucket_result,     \* get_all_endpoint_buckets: result
    bucket_events,     \* the events of the latest compute_bucket_statuses
    bucket_now,        \* the Utc::now() of the latest compute_bucket_statuses
    buckets,           \* the return value of the latest compute_bucket_statuses
    bucket_pc,         \* position of get_all_endpoint_buckets
    fn_pc,             \* position of a call of a function checked on its own
    fn_args,           \* the arguments of that call
    fn_ret             \* its return value

retry_vars == <<probe_endpoint, overflow_checks, retry_pc, attempt, max_attempts,
                last_result, calls, last_call, tick_ops>>
lock_vars == <<lock_pc, lock_writer, lock_readers>>
bucket_vars == <<time_range, endpoint_names, bucket_todo, bucket_result,
                 bucket_events, bucket_now, buckets, bucket_pc>>
fn_vars == <<fn_pc, fn_args, fn_ret>>
aux_vars == <<retry_vars, lock_vars, bucket_vars, fn_vars>>

vars == <<config, db_pool, reload_interval, main_pc, main_results, main_todo,
          state, events, current_endpoints, active_tasks, cancelled, next_token,
          runners, fired, timer_fires, reload_pc, reload_count, load_error, new_config, diff,
          check_results, append_todo, reload_chan, blocked_senders, last_read, aux_vars>>

main_vars == <<config, db_pool, reload_interval, main_pc, main_results, main_todo>>
runner_vars == <<runners, fired, timer_fires>>
super_vars == <<current_endpoints, active_tasks, cancelled, next_token>>
tick_vars == <<reload_pc, reload_count, load_error, new_config, diff,
               check_results, append_todo>>
chan_vars == <<reload_chan, blocked_senders>>

NoRead == {"-"}

\* no primitive invocation yet
NoCall == [name |-> "-", is_up |-> FALSE, status_code |-> "none",
           response_time_ms |-> "none", error |-> "none", error_type |-> "none"]

\* the supervisor runs are not looking inside a tick of the retry driver
RetryIdle ==
    /\ probe_endpoint = ProbeEndpoint("http", 0, FALSE)
    /\ overflow_checks = FALSE
    /\ retry_pc = "idle"
    /\ attempt = 0
    /\ max_attempts = 0
    /\ last_result = NoCall
    /\ calls = <<>>
    /\ last_call = NoCall
    /\ tick_ops = <<>>

\* the supervisor runs do not follow the lock guards step by step
LockIdle ==
    /\ lock_pc = EmptyMap
    /\ lock_writer = EmptyMap
    /\ lock_readers = EmptyMap

\* no bucket query is in progress
BucketIdle ==
    /\ time_range = "1h"
    /\ endpoint_names = <<>>
    /\ bucket_todo = <<>>
    /\ bucket_result = EmptyMap
    /\ bucket_events = <<>>
    /\ bucket_now = 0
    /\ buckets = <<>>
    /\ bucket_pc = "idle"

\* no function is being checked on its own
FnIdle ==
    /\ fn_pc = "idle"
    /\ fn_args = <<>>
    /\ fn_ret = <<>>

AuxIdle == RetryIdle /\ LockIdle /\ BucketIdle /\ FnIdle

Init ==
    /\ config \in ValidConfigs
    /\ db_pool \in BOOLEAN
    /\ reload_interval \in {0, 60}
    /\ main_pc = "initial_check"
    /\ main_results = <<>>
    /\ main_todo = <<>>
    /\ state = EmptyMap
    /\ events = [n \in Names |-> <<>>]
    /\ current_endpoints = EmptyMap
    /\ active_tasks = EmptyMap
    /\ cancelled = {}
    /\ next_token = 1
    /\ runners = EmptyMap
    /\ fired = {}
    /\ timer_fires = 0
    /\ reload_pc = "not_started"
    /\ reload_count = 0
    /\ load_error = "none"
    /\ new_config = EmptyMap
    /\ diff = NoDiff
    /\ check_results = <<>>
    /\ append_todo = <<>>
    /\ reload_chan = 0
    /\ blocked_senders = 0
    /\ last_read = NoRead
    /\ AuxIdle

\* db::insert_uptime_event for one result
AppendEvent(ev, result) ==
    [ev EXCEPT ![result.name] = Append(@, result)]

\* ------------------------------------------------------------------- main
\* initial_check: check_all_endpoints(endpoints).await
InitialSweep ==
    /\ main_pc = "initial_check"
    /\ main_results' = check_all_endpoints(config)
    /\ main_todo' = IF db_pool THEN check_all_endpoints(config) ELSE <<>>
    /\ main_pc' = "initial_append"
    /\ UNCHANGED <<config, db_pool, reload_interval, state, events, runner_vars,
                   super_vars, tick_vars, chan_vars, last_read, aux_vars>>

\* initial_check: one db::insert_uptime_event of the for loop
InitialAppend ==
    /\ main_pc = "initial_append"
    /\ main_todo # <<>>
    /\ events' = AppendEvent(events, Head(main_todo))
    /\ main_todo' = Tail(main_todo)
    /\ UNCHANGED <<config, db_pool, reload_interval, main_pc, main_results, state,
                   runner_vars, super_vars, tick_vars, chan_vars, last_read, aux_vars>>

\* initial_check: state.write().await and the insert loop
InitialWrite ==
    /\ main_pc = "initial_append"
    /\ main_todo = <<>>
    /\ state' = InsertResults(state, main_results)
    /\ main_results' = <<>>
    /\ main_pc' = "spawn_background_tasks"
    /\ UNCHANGED <<config, db_pool, reload_interval, main_todo, events,
                   runner_vars, super_vars, tick_vars, chan_vars, last_read, aux_vars>>

\* start_all_checkers: the handle map with one fresh token per endpoint
StartTasks(endpoints, first) ==
    LET ns == SortedNames(DOMAIN endpoints)
    IN  [n \in DOMAIN endpoints |-> first + (CHOOSE i \in 1..Len(ns) : ns[i] = n) - 1]

\* spawn_background_tasks: start_all_checkers, the snapshot, the channel and
\* the spawn of the reload loop
SpawnBackgroundTasks ==
    /\ main_pc = "spawn_background_tasks"
    /\ active_tasks' = StartTasks(config, next_token)
    /\ runners' = [t \in DOMAIN runners \cup {active_tasks'[n] : n \in DOMAIN config} |->
                     IF t \in DOMAIN runners THEN runners[t]
                     ELSE LET n == CHOOSE m \in DOMAIN config : active_tasks'[m] = t
                          IN  NewRunner(n, config[n])]
    /\ next_token' = next_token + Cardinality(DOMAIN config)
    /\ current_endpoints' = config
    /\ reload_pc' = "select"
    /\ main_pc' = "bind"
    /\ UNCHANGED <<config, db_pool, reload_interval, main_results, main_todo,
                   state, events, cancelled, fired, timer_fires, reload_count, load_error,
                   new_config, diff, check_results, append_todo, chan_vars,
                   last_read, aux_vars>>

\* main: TcpListener::bind and axum::serve; requests are accepted from here on
Serve ==
    /\ main_pc = "bind"
    /\ main_pc' = "serve"
    /\ UNCHANGED <<config, db_pool, reload_interval, main_results, main_todo,
                   state, events, runner_vars, super_vars, tick_vars, chan_vars,
                   last_read, aux_vars>>

\* get_sorted_results, called by the index and status handlers
get_sorted_results(results) ==
    LET ns == SortedNames(DOMAIN results)
    IN  [i \in 1..Len(ns) |-> results[ns[i]]]

ReadResults ==
    /\ main_pc = "serve"
    /\ LET sorted == get_sorted_results(state)
       IN  last_read' = {sorted[i].name : i \in 1..Len(sorted)}
    /\ UNCHANGED <<main_vars, state, events, runner_vars, super_vars, tick_vars,
                   chan_vars, aux_vars>>

\* ---------------------------------------------------------------- runners
SetRunner(r, newpc) == runners' = [runners EXCEPT ![r].pc = newpc]

\* spawn_endpoint_checker: check_endpoint(&name, &endpoint).await, then
\* db::insert_uptime_event(pool, &result).await when a pool is configured
RunnerProbe(r) ==
    /\ r \in DOMAIN runners
    /\ runners[r].pc = "probe"
    /\ events' = IF db_pool
                 THEN AppendEvent(events, check_endpoint(runners[r].name, runners[r].endpoint))
                 ELSE events
    /\ SetRunner(r, "write")
    /\ UNCHANGED <<main_vars, state, fired, timer_fires, super_vars, tick_vars,
                   chan_vars, last_read, aux_vars>>

\* spawn_endpoint_checker: state.write().await; results.insert(name, result),
\* then the first poll of the select!: sleep(interval) has just been created
\* and has not elapsed (interval > timeout >= 0), so only the cancellation can
\* be ready
RunnerWrite(r) ==
    /\ r \in DOMAIN runners
    /\ runners[r].pc = "write"
    /\ state' = MapInsert(state, runners[r].name,
                          check_endpoint(runners[r].name, runners[r].endpoint))
    /\ LET ready == SelectReady(FALSE, r \in cancelled)
       IN  IF ready = {}
           THEN SetRunner(r, "wait")
           ELSE \E b \in ready :
                    SetRunner(r, IF b = "cancelled" THEN "done" ELSE "probe")
    /\ UNCHANGED <<main_vars, events, fired, timer_fires, super_vars, tick_vars,
                   chan_vars, last_read, aux_vars>>

\* the runner's sleep(interval) elapses and wakes the task
TimerFire(r) ==
    /\ r \in DOMAIN runners
    /\ runners[r].pc = "wait"
    /\ r \notin fired
    /\ timer_fires < MaxTicks
    /\ fired' = fired \cup {r}
    /\ timer_fires' = timer_fires + 1
    /\ UNCHANGED <<main_vars, state, events, runners, super_vars, tick_vars,
                   chan_vars, last_read, aux_vars>>

\* the woken runner polls the select! again and takes a ready branch
RunnerWake(r) ==
    /\ r \in DOMAIN runners
    /\ runners[r].pc = "wait"
    /\ \E b \in SelectReady(r \in fired, r \in cancelled) :
          SetRunner(r, IF b = "sleep" THEN "probe" ELSE "done")
    /\ fired' = fired \ {r}
    /\ UNCHANGED <<main_vars, state, events, timer_fires, super_vars, tick_vars,
                   chan_vars, last_read, aux_vars>>

\* ------------------------------------------------------------ reload loop
\* auto_reload with the timer arm enabled for every interval
auto_reload_Always(interval) == TRUE

\* let auto_reload = reload_interval > 0
auto_reload(interval) == interval > 0

\* select!: the sleep(interval) arm, enabled only when auto_reload
ReloadTimer ==
    /\ reload_pc = "select"
    /\ auto_reload(reload_interval)
    /\ reload_count < MaxReloads
    /\ reload_pc' = "load"
    /\ reload_count' = reload_count + 1
    /\ load_error' = "none"
    /\ UNCHANGED <<main_vars, state, events, runner_vars, super_vars, new_config,
                   diff, check_results, append_todo, chan_vars, last_read, aux_vars>>

\* select!: the reload_rx.recv() arm; the freed slot goes to a suspended sender
ReloadRecv ==
    /\ reload_pc = "select"
    /\ reload_chan > 0
    /\ reload_count < MaxReloads
    /\ reload_pc' = "load"
    /\ reload_count' = reload_count + 1
    /\ load_error' = "none"
    /\ reload_chan' = reload_chan - 1
    /\ UNCHANGED <<main_vars, state, events, runner_vars, super_vars, new_config,
                   diff, check_results, append_todo, blocked_senders, last_read, aux_vars>>

\* Config::load(&config_path) and the match on its result, then the
\* comparison with the snapshot
ReloadLoad ==
    /\ reload_pc = "load"
    /\ \E content \in FileContents :
          LET res == ConfigLoad(content)
          IN  /\ load_error' = res.err
              /\ reload_pc' = AfterLoad(res, current_endpoints)
              /\ new_config' = IF reload_pc' = "select" THEN EmptyMap
                               ELSE res.endpoints
    /\ UNCHANGED <<main_vars, state, events, runner_vars, super_vars,
                   reload_count, diff, check_results, append_todo, chan_vars,
                   last_read, aux_vars>>

\* a sweep of the reload loop: check_all_endpoints(..).await
Sweep(from, endpoints) ==
    /\ reload_pc = from
    /\ check_results' = check_all_endpoints(endpoints)
    /\ append_todo' = IF db_pool THEN check_all_endpoints(endpoints) ELSE <<>>
    /\ UNCHANGED <<main_vars, state, events, runner_vars, super_vars,
                   reload_count, load_error, new_config, diff, chan_vars,
                   last_read, aux_vars>>

\* one db::insert_uptime_event of a sweep's for loop
SweepAppend(at) ==
    /\ reload_pc = at
    /\ append_todo # <<>>
    /\ events' = AppendEvent(events, Head(append_todo))
    /\ append_todo' = Tail(append_todo)
    /\ UNCHANGED <<main_vars, state, runner_vars, super_vars, reload_pc,
                   reload_count, load_error, new_config, diff, check_results,
                   chan_vars, last_read, aux_vars>>

\* equivalence path: the re-check of all endpoints
EqSweep ==
    /\ Sweep("eq_sweep", new_config)
    /\ reload_pc' = "eq_store"

EqAppend == SweepAppend("eq_store")

\* equivalence path: state.write().await, the insert loop and continue
EqWrite ==
    /\ reload_pc = "eq_store"
    /\ append_todo = <<>>
    /\ state' = InsertResults(state, check_results)
    /\ reload_pc' = "select"
    /\ new_config' = EmptyMap
    /\ check_results' = <<>>
    /\ UNCHANGED <<main_vars, events, runner_vars, super_vars, reload_count,
                   load_error, diff, append_todo, chan_vars, last_read, aux_vars>>

\* apply_config_update up to drop(tasks); drop(results): both write locks are
\* held, the lists are computed, tokens cancelled, runners spawned
ApplyUpdate ==
    /\ reload_pc = "apply"
    /\ LET d == Partition(current_endpoints, new_config)
           sp == SpawnSeq(d)
           to_check == EndpointsToCheck(new_config, d)
       IN  /\ diff' = d
           /\ cancelled' = cancelled \cup TokensToCancel(active_tasks, d)
           /\ active_tasks' = TasksAfterUpdate(active_tasks, d, next_token)
           /\ state' = StateAfterUpdate(state, d)
           /\ runners' = [t \in DOMAIN runners \cup {next_token + i - 1 : i \in 1..Len(sp)} |->
                            IF t \in DOMAIN runners THEN runners[t]
                            ELSE NewRunner(sp[t - next_token + 1],
                                           new_config[sp[t - next_token + 1]])]
           /\ next_token' = next_token + Len(sp)
           /\ IF DOMAIN to_check # {}
              THEN /\ reload_pc' = "re_sweep"
                   /\ UNCHANGED <<current_endpoints, new_config>>
              ELSE /\ reload_pc' = "select"
                   /\ current_endpoints' = new_config
                   /\ new_config' = EmptyMap
    /\ UNCHANGED <<main_vars, events, fired, timer_fires, reload_count, load_error,
                   check_results, append_todo, chan_vars, last_read, aux_vars>>

\* apply_config_update: the re-check of the added, changed and unchanged
ReSweep ==
    /\ Sweep("re_sweep", EndpointsToCheck(new_config, diff))
    /\ reload_pc' = "re_store"

ReAppend == SweepAppend("re_store")

\* ReWrite without current_endpoints.clone_from(new_endpoints)
ReWrite_KeepsSnapshot ==
    /\ reload_pc = "re_store"
    /\ append_todo = <<>>
    /\ state' = InsertResults(state, check_results)
    /\ reload_pc' = "select"
    /\ new_config' = EmptyMap
    /\ check_results' = <<>>
    /\ UNCHANGED <<main_vars, events, runner_vars, super_vars, reload_count,
                   load_error, diff, append_todo, chan_vars, last_read, aux_vars>>

\* apply_config_update: state.write().await, the insert loop, and
\* current_endpoints.clone_from(new_endpoints)
ReWrite ==
    /\ reload_pc = "re_store"
    /\ append_todo = <<>>
    /\ state' = InsertResults(state, check_results)
    /\ current_endpoints' = new_config
    /\ reload_pc' = "select"
    /\ new_config' = EmptyMap
    /\ check_results' = <<>>
    /\ UNCHANGED <<main_vars, events, runner_vars, active_tasks, cancelled,
                   next_token, reload_count, load_error, diff, append_todo,
                   chan_vars, last_read, aux_vars>>

\* --------------------------------------------------------- /reload handler
\* reload: state.reload_trigger.send(()).await on the channel of capacity 1;
\* with the slot taken the handler is suspended in send
ReloadRequest ==
    /\ main_pc = "serve"
    /\ IF reload_chan < 1
       THEN reload_chan' = reload_chan + 1 /\ UNCHANGED blocked_senders
       ELSE /\ blocked_senders < MaxBlockedSenders
            /\ blocked_senders' = blocked_senders + 1
            /\ UNCHANGED reload_chan
    /\ UNCHANGED <<main_vars, state, events, runner_vars, super_vars, tick_vars,
                   last_read, aux_vars>>

\* a suspended send obtains the freed slot and the handler returns
SenderResume ==
    /\ blocked_senders > 0
    /\ reload_chan < 1
    /\ reload_chan' = reload_chan + 1
    /\ blocked_senders' = blocked_senders - 1
    /\ UNCHANGED <<main_vars, state, events, runner_vars, super_vars, tick_vars,
                   last_read, aux_vars>>

\* main up to axum::serve
MainNext ==
    \/ InitialSweep
    \/ InitialAppend
    \/ InitialWrite
    \/ SpawnBackgroundTasks
    \/ Serve

\* the runner tasks
RunnerNext ==
    \/ \E r \in DOMAIN runners : RunnerProbe(r)
    \/ \E r \in DOMAIN runners : RunnerWrite(r)
    \/ \E r \in DOMAIN runners : TimerFire(r)
    \/ \E r \in DOMAIN runners : RunnerWake(r)

\* a reload tick after the select!
TickNext ==
    \/ ReloadLoad
    \/ EqSweep
    \/ EqAppend
    \/ EqWrite
    \/ ApplyUpdate
    \/ ReSweep
    \/ ReAppend
    \/ ReWrite

Next ==
    \/ MainNext
    \/ RunnerNext
    \/ ReloadTimer
    \/ ReloadRecv
    \/ TickNext
    \/ ReloadRequest
    \/ SenderResume

Spec == Init /\ [][Next]_vars

\* the reload loop is idle and startup has finished
Quiescent == main_pc \in {"bind", "serve"} /\ reload_pc = "select"

\* C1: at every quiescent state the handle map has exactly the names of the
\* configuration snapshot as keys, each with its own un-cancelled token whose
\* runner is bound to that name.
C1_HandleMapMatchesSnapshot ==
    Quiescent =>
        /\ DOMAIN active_tasks = DOMAIN current_endpoints
        /\ \A n \in DOMAIN active_tasks :
              /\ active_tasks[n] \notin cancelled
              /\ active_tasks[n] \in DOMAIN runners
              /\ runners[active_tasks[n]].name = n
        /\ \A n, m \in DOMAIN active_tasks :
              n # m => active_tasks[n] # active_tasks[m]

\* a quiescent state after a reconciliation that removed one endpoint and
\* added another
C1_Witness ==
    /\ Quiescent
    /\ reload_count > 0
    /\ DOMAIN config \ DOMAIN current_endpoints # {}
    /\ DOMAIN current_endpoints \ DOMAIN config # {}
    /\ cancelled # {}

\* names that are neither in the snapshot nor in a configuration being applied
RemovedNames ==
    IF main_pc \in {"bind", "serve"}
    THEN {n \in Names : n \notin DOMAIN current_endpoints /\ n \notin DOMAIN new_config}
    ELSE {}

\* C2: once a reconciliation that removed a name has completed, the status
\* map has no entry for that name.
C2_RemovedEndpointHasNoStatus ==
    \A n \in RemovedNames : n \notin DOMAIN state

\* C3 as claimed: no two runner tasks bound to one name are un-terminated at
\* the same time.
C3_NoTwoLiveRunners ==
    \A r1, r2 \in DOMAIN runners :
        (r1 # r2 /\ runners[r1].name = runners[r2].name)
            => (runners[r1].pc = "done" \/ runners[r2].pc = "done")

\* C3 amended: no two runner tasks bound to one name have un-cancelled tokens
\* at the same time, and the un-cancelled one is the one the handle map names.
C3_NoTwoUncancelledRunners ==
    /\ \A r1, r2 \in DOMAIN runners :
          (r1 # r2 /\ runners[r1].name = runners[r2].name)
              => (r1 \in cancelled \/ r2 \in cancelled)
    /\ \A r \in DOMAIN runners \ cancelled :
          /\ runners[r].name \in DOMAIN active_tasks
          /\ active_tasks[runners[r].name] = r

\* a replacement runner exists while the cancelled old runner of the same
\* name is still in its tick
C3_Witness ==
    \E r1, r2 \in DOMAIN runners :
        /\ r1 < r2
        /\ runners[r1].name = runners[r2].name
        /\ r1 \in cancelled
        /\ runners[r1].pc \in {"probe", "write"}
        /\ runners[r2].pc \in {"probe", "write"}

\* C4: a reload tick whose Config::load fails (unreadable file, parse error
\* or validation error) returns the loop to its wait and leaves the snapshot,
\* the handle map, the status map, the tokens, the runners and the event log
\* unchanged.
C4_FailedLoadChangesNothing ==
    [][(reload_pc = "load" /\ reload_pc' # "load"
            /\ load_error' \in {"read", "parse", "validation"})
        => /\ reload_pc' = "select"
           /\ UNCHANGED <<current_endpoints, active_tasks, state, cancelled,
                          next_token, runners, events, check_results,
                          append_todo>>]_vars

\* the loop is back at its wait after a tick whose load failed on validation
C4_Witness ==
    /\ reload_pc = "select"
    /\ reload_count > 0
    /\ load_error = "validation"
    /\ DOMAIN active_tasks # {}

\* the reload loop is on the equivalence path
EqPath == reload_pc \in {"eq_sweep", "eq_store"}

\* the results of one sweep over endpoints: exactly one per name
OneResultPerEndpoint(results, endpoints) ==
    /\ Len(results) = Cardinality(DOMAIN endpoints)
    /\ \A n \in DOMAIN endpoints :
          Cardinality({i \in 1..Len(results) :
              results[i] = [name |-> n, endpoint |-> endpoints[n]]}) = 1

InitPartition ==
    /\ current_endpoints \in ValidConfigs
    /\ new_config \in ValidConfigs
    /\ reload_pc = "apply"
    /\ diff = NoDiff
    /\ config = current_endpoints
    /\ db_pool = FALSE
    /\ reload_interval = 0
    /\ main_pc = "serve"
    /\ main_results = <<>>
    /\ main_todo = <<>>
    /\ state = EmptyMap
    /\ events = [n \in Names |-> <<>>]
    /\ active_tasks = EmptyMap
    /\ cancelled = {}
    /\ next_token = 1
    /\ runners = EmptyMap
    /\ fired = {}
    /\ timer_fires = 0
    /\ reload_count = 1
    /\ load_error = "none"
    /\ check_results = <<>>
    /\ append_todo = <<>>
    /\ reload_chan = 0
    /\ blocked_senders = 0
    /\ last_read = NoRead
    /\ AuxIdle

ComputePartition ==
    /\ reload_pc = "apply"
    /\ diff' = Partition(current_endpoints, new_config)
    /\ reload_pc' = "partitioned"
    /\ UNCHANGED <<main_vars, state, events, runner_vars, super_vars,
                   reload_count, load_error, new_config, check_results,
                   append_todo, chan_vars, last_read, aux_vars>>

NextPartition == ComputePartition

PartitionSpec == InitPartition /\ [][NextPartition]_vars

\* C6: the four lists cover names(old) \cup names(new), are pairwise disjoint,
\* and are: removed = old minus new, added = new minus old, changed = common
\* names with different descriptors, unchanged = common names with equal ones.
C6_PartitionExhaustiveDisjoint ==
    reload_pc = "partitioned" =>
        LET old == current_endpoints
            new == new_config
            common == DOMAIN old \cap DOMAIN new
        IN  /\ diff.removed \cup diff.added \cup diff.changed \cup diff.unchanged
                  = DOMAIN old \cup DOMAIN new
            /\ diff.removed \cap diff.added = {}
            /\ diff.removed \cap diff.changed = {}
            /\ diff.removed \cap diff.unchanged = {}
            /\ diff.added \cap diff.changed = {}
            /\ diff.added \cap diff.unchanged = {}
            /\ diff.changed \cap diff.unchanged = {}
            /\ diff.removed = DOMAIN old \ DOMAIN new
            /\ diff.added = DOMAIN new \ DOMAIN old
            /\ diff.changed = {n \in common : old[n] # new[n]}
            /\ diff.unchanged = {n \in common : old[n] = new[n]}

\* a computed partition with an added and a changed name
C6_Witness ==
    /\ reload_pc = "partitioned"
    /\ diff.added # {}
    /\ diff.changed # {}

\* ------------------------------------------------------------- fairness
\* every token a run can create
MaxRunners == Cardinality(Names) * (MaxReloads + 1)
TokenIds == 1..MaxRunners

\* the runtime keeps polling a runner task that is ready to run: every probe
\* and every append returns, the status lock is granted, a woken task is
\* polled. Timers, reloads and requests are left to the environment.
RunnerStep(r) == RunnerProbe(r) \/ RunnerWrite(r) \/ RunnerWake(r)

RunnerFairness == \A r \in TokenIds : WF_vars(RunnerStep(r))

\* The runs checked for liveness: the reload ticks are started by the reload
\* timer (a tick started by a manual trigger is the same tick), and the
\* process starts without a backend or with at most one endpoint (reloads add
\* further endpoints).
InitLive ==
    /\ Init
    /\ reload_interval > 0
    /\ (~db_pool \/ Cardinality(DOMAIN config) <= 1)

NextLive ==
    \/ MainNext
    \/ RunnerNext
    \/ ReloadTimer
    \/ TickNext

LiveSpec == InitLive /\ [][NextLive]_vars /\ RunnerFairness

\* C7: a runner whose token has been cancelled eventually terminates, and a
\* cancelled runner that finishes its status write leaves the loop instead
\* of starting another interval wait.
C7_CancelledRunnerTerminates ==
    /\ \A r \in TokenIds :
          (r \in cancelled) ~> (r \in DOMAIN runners /\ runners[r].pc = "done")
    /\ [][\A r \in DOMAIN runners :
            (r \in cancelled /\ runners[r].pc = "write" /\ runners'[r].pc # "write")
                => runners'[r].pc = "done"]_vars

\* a runner cancelled in the middle of a tick has terminated
C7_Witness ==
    \E r \in DOMAIN runners :
        /\ r \in cancelled
        /\ runners[r].pc = "done"
        /\ runners[r].name \in DOMAIN state

\* C8 as claimed: a runner that is at its inter-iteration wait once its token
\* has been cancelled starts no further probe, also when its interval timer
\* has elapsed.
C8_NoProbeAfterCancelAtWait ==
    [][\A r \in DOMAIN runners :
          (r \in cancelled /\ runners[r].pc = "wait") => runners'[r].pc # "probe"]_vars

\* C9 as claimed: no caller of trigger_reload is ever suspended in the send.
C9_SendNeverBlocks == blocked_senders = 0

\* ------------------------------------------------ startup and its readers
\* the runs up to the first reload tick, with the dashboard handlers reading
\* the status map
NextStart ==
    \/ MainNext
    \/ RunnerNext
    \/ ReadResults

StartSpec == Init /\ [][NextStart]_vars

\* C10: before the first reload tick, once the initial sweep has returned the
\* status map has an entry for every endpoint of the initial configuration;
\* runners exist and requests are served only after that, and every read of
\* the status map returns every initially configured endpoint.
C10_InitialSweepBeforeReaders ==
    reload_count = 0 =>
        /\ main_pc \in {"spawn_background_tasks", "bind", "serve"}
              => DOMAIN state = DOMAIN config
        /\ (DOMAIN runners # {} \/ reload_pc # "not_started")
              => main_pc \in {"bind", "serve"}
        /\ last_read # NoRead
              => (main_pc = "serve" /\ last_read = DOMAIN config)

\* a handler has read the status map of a two-endpoint configuration while a
\* runner is in its first tick
C10_Witness ==
    /\ reload_count = 0
    /\ last_read # NoRead
    /\ Cardinality(last_read) = 2
    /\ \E r \in DOMAIN runners : runners[r].pc = "probe"

\* ------------------------------------------- one runner under the retry driver
\* the variables of the supervisor, at rest while one runner's ticks are
\* followed attempt by attempt
SupervisorIdle ==
    /\ config = EmptyMap
    /\ reload_interval = 0
    /\ main_pc = "serve"
    /\ main_results = <<>>
    /\ main_todo = <<>>
    /\ current_endpoints = EmptyMap
    /\ active_tasks = EmptyMap
    /\ cancelled = {}
    /\ next_token = 1
    /\ runners = EmptyMap
    /\ fired = {}
    /\ reload_pc = "select"
    /\ reload_count = 0
    /\ load_error = "none"
    /\ new_config = EmptyMap
    /\ diff = NoDiff
    /\ check_results = <<>>
    /\ append_todo = <<>>
    /\ reload_chan = 0
    /\ blocked_senders = 0
    /\ last_read = NoRead

\* a runner as spawn_endpoint_checker starts it, for every descriptor, with
\* and without a backend, in a build with and without overflow checks
InitRetry ==
    /\ SupervisorIdle
    /\ LockIdle
    /\ BucketIdle
    /\ FnIdle
    /\ db_pool \in BOOLEAN
    /\ state = EmptyMap
    /\ events = [n \in Names |-> <<>>]
    /\ timer_fires = 0
    /\ probe_endpoint \in ProbeEndpoints
    /\ overflow_checks \in BOOLEAN
    /\ retry_pc = "check_endpoint"
    /\ attempt = 0
    /\ max_attempts = 0
    /\ last_result = NoCall
    /\ calls = <<>>
    /\ last_call = NoCall
    /\ tick_ops = <<>>

sup_vars == <<config, reload_interval, main_pc, main_results, main_todo,
              current_endpoints, active_tasks, cancelled, next_token, runners,
              fired, reload_pc, reload_count, load_error, new_config, diff,
              check_results, append_todo, reload_chan, blocked_senders,
              last_read>>

\* check_endpoint: let max_attempts = endpoint.retries + 1 and
\* let mut last_result = base_result(name, endpoint)
DriverEnter ==
    /\ retry_pc = "check_endpoint"
    /\ IF AttemptsOverflow(probe_endpoint.retries) /\ overflow_checks
       THEN /\ retry_pc' = "panicked"
            /\ UNCHANGED <<max_attempts, last_result>>
       ELSE /\ retry_pc' = "for"
            /\ max_attempts' = MaxAttempts(probe_endpoint.retries)
            /\ last_result' = base_result(NameSeq[1], probe_endpoint)
    /\ attempt' = 0
    /\ calls' = <<>>
    /\ last_call' = NoCall
    /\ UNCHANGED <<sup_vars, lock_vars, bucket_vars, fn_vars, db_pool, state, events, timer_fires, probe_endpoint,
                   overflow_checks, tick_ops>>

\* ReturnsEarly that never takes the return inside the loop
ReturnsEarly_Never(result) == FALSE

\* check_endpoint: if last_result.is_up { return last_result; }
ReturnsEarly(result) == result.is_up

\* check_endpoint: one iteration of for attempt in 0..max_attempts
DriverAttempt ==
    /\ retry_pc = "for"
    /\ attempt < max_attempts
    /\ \E ev \in ProbeEvents(probe_endpoint) :
          LET outcome == probe(NameSeq[1], probe_endpoint, ev)
          IN  /\ last_result' = outcome
              /\ last_call' = outcome
              /\ calls' = Append(calls, outcome.is_up)
              /\ IF ReturnsEarly(outcome)
                 THEN retry_pc' = "insert_uptime_event" /\ UNCHANGED attempt
                 ELSE attempt' = attempt + 1 /\ UNCHANGED retry_pc
    /\ UNCHANGED <<sup_vars, lock_vars, bucket_vars, fn_vars, db_pool, state, events, timer_fires, probe_endpoint,
                   overflow_checks, max_attempts, tick_ops>>

\* check_endpoint: the range is exhausted and last_result is returned
DriverReturnLast ==
    /\ retry_pc = "for"
    /\ attempt >= max_attempts
    /\ retry_pc' = "insert_uptime_event"
    /\ UNCHANGED <<sup_vars, lock_vars, bucket_vars, fn_vars, db_pool, state, events, timer_fires, probe_endpoint,
                   overflow_checks, attempt, max_attempts, last_result, calls,
                   last_call, tick_ops>>

\* spawn_endpoint_checker: the hand-over of the outcome to the event sink:
\* if let Some(ref pool) = db_pool, the insert and the warn! on its error;
\* without a pool the sink is the no-op sink
TickAppend ==
    /\ retry_pc = "insert_uptime_event"
    /\ IF db_pool
       THEN \E inserted \in BOOLEAN :
               IF inserted
               THEN /\ events' = AppendEvent(events, last_result)
                    /\ tick_ops' = Append(tick_ops, "append")
               ELSE /\ tick_ops' = Append(tick_ops, "append_failed")
                    /\ UNCHANGED events
       ELSE /\ tick_ops' = Append(tick_ops, "append_noop")
            /\ UNCHANGED events
    /\ retry_pc' = "write"
    /\ UNCHANGED <<sup_vars, lock_vars, bucket_vars, fn_vars, db_pool, state, timer_fires, probe_endpoint,
                   overflow_checks, attempt, max_attempts, last_result, calls,
                   last_call>>

\* WriteStatus that leaves the map as it is
WriteStatus_Skip(results, name, result) == results

\* spawn_endpoint_checker: results.insert(name.clone(), result)
WriteStatus(results, name, result) == MapInsert(results, name, result)

\* spawn_endpoint_checker: the block that takes state.write()
TickWrite ==
    /\ retry_pc = "write"
    /\ state' = WriteStatus(state, NameSeq[1], last_result)
    /\ tick_ops' = Append(tick_ops, "write")
    /\ retry_pc' = "select"
    /\ UNCHANGED <<sup_vars, lock_vars, bucket_vars, fn_vars, db_pool, events, timer_fires, probe_endpoint,
                   overflow_checks, attempt, max_attempts, last_result, calls,
                   last_call>>

\* TickSleep on a timer that runs during the tick, as a tokio interval does
TickSleep_DuringTick ==
    /\ retry_pc \in {"for", "insert_uptime_event", "write", "select"}
    /\ timer_fires < MaxTicks
    /\ timer_fires' = timer_fires + 1
    /\ retry_pc' = "check_endpoint"
    /\ tick_ops' = <<>>
    /\ UNCHANGED <<sup_vars, lock_vars, bucket_vars, fn_vars, db_pool, state, events, probe_endpoint,
                   overflow_checks, attempt, max_attempts, last_result, calls,
                   last_call>>

\* spawn_endpoint_checker: the sleep(interval) arm of the select!
TickSleep ==
    /\ retry_pc = "select"
    /\ timer_fires < MaxTicks
    /\ timer_fires' = timer_fires + 1
    /\ retry_pc' = "check_endpoint"
    /\ tick_ops' = <<>>
    /\ UNCHANGED <<sup_vars, lock_vars, bucket_vars, fn_vars, db_pool, state, events, probe_endpoint,
                   overflow_checks, attempt, max_attempts, last_result, calls,
                   last_call>>

NextRetry ==
    \/ DriverEnter
    \/ DriverAttempt
    \/ DriverReturnLast
    \/ TickAppend
    \/ TickWrite
    \/ TickSleep

RetrySpec == InitRetry /\ [][NextRetry]_vars

\* check_endpoint has returned and the tick goes on with its outcome
Returned == retry_pc \in {"insert_uptime_event", "write", "select"}

\* C11: one call of check_endpoint invokes the primitive at most retries + 1
\* times, exactly once when the first attempt is up, and never again after
\* an attempt that is up.
C11_AttemptsBounded ==
    /\ Len(calls) <= probe_endpoint.retries + 1
    /\ \A i \in 1..Len(calls) : calls[i] => i = Len(calls)
    /\ (Len(calls) >= 1 /\ calls[1]) => Len(calls) = 1
    /\ (Returned /\ Len(calls) >= 1 /\ calls[1]) => (attempt = 0 /\ last_result.is_up)

\* a call on a descriptor with two retries has returned after one attempt,
\* which was up
C11_Witness ==
    /\ Returned
    /\ probe_endpoint.retries = 2
    /\ calls = <<TRUE>>

\* C12 as claimed: check_endpoint returns the outcome of the first attempt
\* that is up, and with no attempt up the outcome of attempt retries + 1.
C12_ReturnsFirstUpOrLast ==
    Returned =>
        /\ last_result = last_call
        /\ IF \E i \in 1..Len(calls) : calls[i]
           THEN last_result.is_up /\ \A i \in 1..(Len(calls) - 1) : ~calls[i]
           ELSE Len(calls) = probe_endpoint.retries + 1 /\ ~last_result.is_up

\* the ways the one hand-over of a tick to the event sink can end: the event
\* is stored, the insert fails and is logged, or no backend is configured
SinkAppends(pool) ==
    IF pool THEN {"append", "append_failed"} ELSE {"append_noop"}

\* C13: a tick that has reached its wait has handed its outcome to the event
\* sink exactly once and then written the status map exactly once, with the
\* outcome check_endpoint returned, whatever the number of attempts; the
\* event log has at most one event per tick, and the event a tick stored
\* carries the outcome the tick wrote.
C13_OneAppendOneWritePerTick ==
    /\ retry_pc = "select" =>
          /\ Len(tick_ops) = 2
          /\ tick_ops[1] \in SinkAppends(db_pool)
          /\ tick_ops[2] = "write"
          /\ NameSeq[1] \in DOMAIN state
          /\ state[NameSeq[1]] = last_result
          /\ tick_ops[1] = "append" =>
                /\ events[NameSeq[1]] # <<>>
                /\ events[NameSeq[1]][Len(events[NameSeq[1]])] = last_result
    /\ retry_pc = "write" =>
          (Len(tick_ops) = 1 /\ tick_ops[1] \in SinkAppends(db_pool))
    /\ retry_pc \in {"check_endpoint", "for", "insert_uptime_event"} => tick_ops = <<>>
    /\ Len(events[NameSeq[1]]) <= timer_fires + 1

\* a first tick of three attempts has stored its one event and written its
\* one status entry
C13_Witness ==
    /\ retry_pc = "select"
    /\ timer_fires = 0
    /\ Len(calls) = 3
    /\ tick_ops = <<"append", "write">>
    /\ Len(events[NameSeq[1]]) = 1

\* is_up exactly when there is no error kind, and exactly when there is no
\* error message
Consistent(outcome) ==
    /\ outcome.is_up <=> outcome.error_type = "none"
    /\ outcome.is_up <=> outcome.error = "none"

\* C14 as claimed: every outcome a primitive returns, and every outcome in
\* the status map, is up exactly when it has no error kind and exactly when
\* it has no error message.
C14_OutcomesConsistent ==
    /\ last_call # NoCall => Consistent(last_call)
    /\ \A n \in DOMAIN state : Consistent(state[n])

\* C15 as claimed: every outcome a primitive returns carries a response time.
C15_ResponseTimePresent ==
    last_call # NoCall => last_call.response_time_ms = "some"

\* ------------------------------------------- event order and status order
\* no task is between the append of an outcome of n and its status write
NoWriterActive(n) ==
    /\ main_pc # "initial_append"
    /\ reload_pc \notin {"eq_store", "re_store"}
    /\ \A r \in DOMAIN runners : runners[r].name = n => runners[r].pc # "write"

\* C16 as claimed: with a backend configured, whenever no writer is active
\* the status entry of an endpoint is the outcome of the endpoint's most
\* recently appended event.
C16_StatusIsLastEvent ==
    db_pool =>
        \A n \in DOMAIN state :
            (NoWriterActive(n) /\ events[n] # <<>>)
                => state[n] = events[n][Len(events[n])]

\* ------------------------------------------------- the reload loop's ticks
\* The runs checked for the scheduling of reload ticks: main and the reload
\* loop keep running (a ready task is polled, a started timer elapses, a
\* load and a sweep return); /reload requests come as the clients send them.
\* The runners' steps touch nothing the reload loop waits for.
NextReload ==
    \/ MainNext
    \/ ReloadTimer
    \/ ReloadRecv
    \/ TickNext
    \/ ReloadRequest
    \/ SenderResume

ReloadSpec ==
    /\ Init
    /\ [][NextReload]_vars
    /\ WF_vars(MainNext)
    /\ WF_vars(ReloadTimer)
    /\ WF_vars(ReloadRecv)
    /\ WF_vars(TickNext)

LockTasks == {"main", "runner1", "runner2", "reload", "reader"}
RunnerTasks == {"runner1", "runner2"}
Locks == {"snapshot", "tasks", "results"}

\* the positions at which a task awaits a probe (check_endpoint or
\* check_all_endpoints) and then, with a backend, its event-sink appends
IoPcs == {"initial_io", "io", "eq_io", "re_io"}

\* the positions between state.write().await and the drop of its guard
InsertPcs == {"initial_insert", "insert", "eq_insert", "re_insert"}

Holds(t, l) == lock_writer[l] = t \/ t \in lock_readers[l]

\* RwLock::write().await returns once no guard of the lock is alive
AcquireWrite(t, l) ==
    /\ lock_writer[l] = "-"
    /\ lock_readers[l] = {}
    /\ lock_writer' = [lock_writer EXCEPT ![l] = t]
    /\ UNCHANGED lock_readers

\* RwLock::read().await returns once no write guard is alive
AcquireRead(t, l) ==
    /\ lock_writer[l] = "-"
    /\ lock_readers' = [lock_readers EXCEPT ![l] = @ \cup {t}]
    /\ UNCHANGED lock_writer

\* the guards of task t on the locks in ls are dropped
Release(t, ls) ==
    /\ lock_writer' = [l \in Locks |->
                          IF l \in ls /\ lock_writer[l] = t THEN "-"
                          ELSE lock_writer[l]]
    /\ lock_readers' = [l \in Locks |->
                           IF l \in ls THEN lock_readers[l] \ {t}
                           ELSE lock_readers[l]]

Goto(t, pc) == lock_pc' = [lock_pc EXCEPT ![t] = pc]

lock_frame == <<config, reload_interval, main_pc, main_results, main_todo,
                current_endpoints, active_tasks, next_token, runners, fired,
                reload_pc, reload_count, load_error, new_config, diff,
                check_results, append_todo, reload_chan, blocked_senders,
                last_read, db_pool, state, events, timer_fires, retry_vars,
                bucket_vars, fn_vars>>

InitLock ==
    /\ SupervisorIdle
    /\ RetryIdle
    /\ BucketIdle
    /\ FnIdle
    /\ db_pool \in BOOLEAN
    /\ state = EmptyMap
    /\ events = [n \in Names |-> <<>>]
    /\ timer_fires = 0
    /\ lock_pc = [t \in LockTasks |->
                     IF t = "main" THEN "initial_io" ELSE "unspawned"]
    /\ lock_writer = [l \in Locks |-> "-"]
    /\ lock_readers = [l \in Locks |-> {}]

\* initial_check: check_all_endpoints(endpoints).await and the loop of
\* db::insert_uptime_event
LockInitialIo ==
    /\ lock_pc["main"] = "initial_io"
    /\ Goto("main", "initial_lock")
    /\ UNCHANGED <<lock_frame, cancelled, lock_writer, lock_readers>>

\* initial_check: let mut state_guard = state.write().await
LockInitialLock ==
    /\ lock_pc["main"] = "initial_lock"
    /\ AcquireWrite("main", "results")
    /\ Goto("main", "initial_insert")
    /\ UNCHANGED <<lock_frame, cancelled>>

\* initial_check: the insert loop; state_guard is dropped at the return
LockInitialInsert ==
    /\ lock_pc["main"] = "initial_insert"
    /\ Release("main", {"results"})
    /\ Goto("main", "start")
    /\ UNCHANGED <<lock_frame, cancelled>>

\* start_all_checkers: spawn_endpoint_checker for the next endpoint
LockStartSpawn(r) ==
    /\ lock_pc["main"] = "start"
    /\ lock_pc[r] = "unspawned"
    /\ lock_pc' = [lock_pc EXCEPT !["main"] = "start_lock", ![r] = "io"]
    /\ UNCHANGED <<lock_frame, cancelled, lock_writer, lock_readers>>

\* start_all_checkers: let mut tasks = active_tasks.write().await
LockStartLock ==
    /\ lock_pc["main"] = "start_lock"
    /\ AcquireWrite("main", "tasks")
    /\ Goto("main", "start_insert")
    /\ UNCHANGED <<lock_frame, cancelled>>

\* start_all_checkers: tasks.insert(..); the guard is dropped at the end of
\* the loop body
LockStartInsert ==
    /\ lock_pc["main"] = "start_insert"
    /\ Release("main", {"tasks"})
    /\ Goto("main", "start")
    /\ UNCHANGED <<lock_frame, cancelled>>

\* spawn_background_tasks: the reload loop is spawned after the last
\* endpoint, and main goes on to serve requests
LockStartDone ==
    /\ lock_pc["main"] = "start"
    /\ lock_pc' = [lock_pc EXCEPT !["main"] = "serve", !["reload"] = "select",
                                  !["reader"] = "idle"]
    /\ UNCHANGED <<lock_frame, cancelled, lock_writer, lock_readers>>

LockMain ==
    \/ LockInitialIo
    \/ LockInitialLock
    \/ LockInitialInsert
    \/ \E r \in RunnerTasks : LockStartSpawn(r)
    \/ LockStartLock
    \/ LockStartInsert
    \/ LockStartDone

\* spawn_endpoint_checker: check_endpoint(&name, &endpoint).await and
\* db::insert_uptime_event(pool, &result).await
LockRunnerIo(r) ==
    /\ lock_pc[r] = "io"
    /\ Goto(r, "lock")
    /\ UNCHANGED <<lock_frame, cancelled, lock_writer, lock_readers>>

\* spawn_endpoint_checker: let mut results = state.write().await
LockRunnerLock(r) ==
    /\ lock_pc[r] = "lock"
    /\ AcquireWrite(r, "results")
    /\ Goto(r, "insert")
    /\ UNCHANGED <<lock_frame, cancelled>>

\* spawn_endpoint_checker: results.insert(..) and the end of the block
LockRunnerInsert(r) ==
    /\ lock_pc[r] = "insert"
    /\ Release(r, {"results"})
    /\ Goto(r, "select")
    /\ UNCHANGED <<lock_frame, cancelled>>

\* spawn_endpoint_checker: the select! over the sleep and the cancellation
LockRunnerSelect(r) ==
    /\ lock_pc[r] = "select"
    /\ \E b \in SelectReady(TRUE, r \in cancelled) :
          Goto(r, IF b = "sleep" THEN "io" ELSE "done")
    /\ UNCHANGED <<lock_frame, cancelled, lock_writer, lock_readers>>

LockRunner ==
    \E r \in RunnerTasks :
        \/ LockRunnerIo(r)
        \/ LockRunnerLock(r)
        \/ LockRunnerInsert(r)
        \/ LockRunnerSelect(r)

\* reload loop: an arm of the select! completes, then Config::load
LockReloadWake ==
    /\ lock_pc["reload"] = "select"
    /\ Goto("reload", "load")
    /\ UNCHANGED <<lock_frame, cancelled, lock_writer, lock_readers>>

\* reload loop: Config::load fails, continue
LockReloadLoadFails ==
    /\ lock_pc["reload"] = "load"
    /\ Goto("reload", "select")
    /\ UNCHANGED <<lock_frame, cancelled, lock_writer, lock_readers>>

\* reload loop: let mut current = current_endpoints.write().await
LockReloadSnapshot ==
    /\ lock_pc["reload"] = "load"
    /\ AcquireWrite("reload", "snapshot")
    /\ Goto("reload", "compare")
    /\ UNCHANGED <<lock_frame, cancelled>>

\* reload loop: new_config.endpoints == *current, the re-check of all
\* endpoints begins
LockReloadUnchanged ==
    /\ lock_pc["reload"] = "compare"
    /\ Goto("reload", "eq_io")
    /\ UNCHANGED <<lock_frame, cancelled, lock_writer, lock_readers>>

\* reload loop, unchanged configuration: check_all_endpoints(..).await and
\* the loop of insert_uptime_event
LockEqIo ==
    /\ lock_pc["reload"] = "eq_io"
    /\ Goto("reload", "eq_lock")
    /\ UNCHANGED <<lock_frame, cancelled, lock_writer, lock_readers>>

\* reload loop, unchanged configuration: let mut results = state.write().await
LockEqLock ==
    /\ lock_pc["reload"] = "eq_lock"
    /\ AcquireWrite("reload", "results")
    /\ Goto("reload", "eq_insert")
    /\ UNCHANGED <<lock_frame, cancelled>>

\* reload loop, unchanged configuration: the insert loop and continue, which
\* drops results and current
LockEqInsert ==
    /\ lock_pc["reload"] = "eq_insert"
    /\ Release("reload", {"results", "snapshot"})
    /\ Goto("reload", "select")
    /\ UNCHANGED <<lock_frame, cancelled>>

\* reload loop: the configuration differs, apply_config_update is called
LockReloadChanged ==
    /\ lock_pc["reload"] = "compare"
    /\ Goto("reload", "apply_tasks_lock")
    /\ UNCHANGED <<lock_frame, cancelled, lock_writer, lock_readers>>

\* apply_config_update: let mut tasks = active_tasks.write().await
LockApplyTasks ==
    /\ lock_pc["reload"] = "apply_tasks_lock"
    /\ AcquireWrite("reload", "tasks")
    /\ Goto("reload", "apply_results_lock")
    /\ UNCHANGED <<lock_frame, cancelled>>

\* apply_config_update: let mut results = state.write().await
LockApplyResults ==
    /\ lock_pc["reload"] = "apply_results_lock"
    /\ AcquireWrite("reload", "results")
    /\ Goto("reload", "apply_lists")
    /\ UNCHANGED <<lock_frame, cancelled>>

\* LocksKeptForSweep without drop(tasks); drop(results)
LocksKeptForSweep_NoDrop == {"tasks", "results"}

\* apply_config_update: the guards still alive when the re-sweep starts,
\* after drop(tasks); drop(results)
LocksKeptForSweep == {}

\* apply_config_update: the four lists, the cancellations, removals and
\* spawns under both guards, then drop(tasks); drop(results); with nothing
\* to re-check the function returns and current is dropped by the loop
LockApplyLists ==
    /\ lock_pc["reload"] = "apply_lists"
    /\ \E cancel \in SUBSET {r \in RunnerTasks \ cancelled :
                                   lock_pc[r] \notin {"unspawned", "done"}},
          spawn \in SUBSET {r \in RunnerTasks :
                                   lock_pc[r] \in {"unspawned", "done"}},
          recheck \in BOOLEAN :
          /\ cancelled' = (cancelled \cup cancel) \ spawn
          /\ lock_pc' = [t \in LockTasks |->
                            IF t \in spawn THEN "io"
                            ELSE IF t = "reload"
                                 THEN (IF recheck THEN "re_io" ELSE "select")
                                 ELSE lock_pc[t]]
          /\ Release("reload",
                     IF recheck THEN {"tasks", "results"} \ LocksKeptForSweep
                     ELSE Locks)
    /\ UNCHANGED lock_frame

\* apply_config_update: check_all_endpoints(&endpoints_to_check).await and
\* the loop of insert_uptime_event
LockReIo ==
    /\ lock_pc["reload"] = "re_io"
    /\ Goto("reload", "re_lock")
    /\ UNCHANGED <<lock_frame, cancelled, lock_writer, lock_readers>>

\* apply_config_update: let mut results = state.write().await
LockReLock ==
    /\ lock_pc["reload"] = "re_lock"
    /\ AcquireWrite("reload", "results")
    /\ Goto("reload", "re_insert")
    /\ UNCHANGED <<lock_frame, cancelled>>

\* apply_config_update: the insert loop, current_endpoints.clone_from and
\* the return, which drops every guard of the tick
LockReInsert ==
    /\ lock_pc["reload"] = "re_insert"
    /\ Release("reload", Locks)
    /\ Goto("reload", "select")
    /\ UNCHANGED <<lock_frame, cancelled>>

LockReload ==
    \/ LockReloadWake
    \/ LockReloadLoadFails
    \/ LockReloadSnapshot
    \/ LockReloadUnchanged
    \/ LockEqIo
    \/ LockEqLock
    \/ LockEqInsert
    \/ LockReloadChanged
    \/ LockApplyTasks
    \/ LockApplyResults
    \/ LockApplyLists
    \/ LockReIo
    \/ LockReLock
    \/ LockReInsert

\* index / status: a request arrives and get_sorted_results is called
LockReaderRequest ==
    /\ lock_pc["reader"] = "idle"
    /\ Goto("reader", "read_lock")
    /\ UNCHANGED <<lock_frame, cancelled, lock_writer, lock_readers>>

\* get_sorted_results: let results = state.read().await
LockReaderLock ==
    /\ lock_pc["reader"] = "read_lock"
    /\ AcquireRead("reader", "results")
    /\ Goto("reader", "reading")
    /\ UNCHANGED <<lock_frame, cancelled>>

\* get_sorted_results: the clone, the sort and the return drop the guard
LockReaderReturn ==
    /\ lock_pc["reader"] = "reading"
    /\ Release("reader", {"results"})
    /\ Goto("reader", "buckets")
    /\ UNCHANGED <<lock_frame, cancelled>>

\* index / status: get_buckets(..).await and the response
LockReaderBuckets ==
    /\ lock_pc["reader"] = "buckets"
    /\ Goto("reader", "idle")
    /\ UNCHANGED <<lock_frame, cancelled, lock_writer, lock_readers>>

LockReader ==
    \/ LockReaderRequest
    \/ LockReaderLock
    \/ LockReaderReturn
    \/ LockReaderBuckets

NextLock ==
    \/ LockMain
    \/ LockRunner
    \/ LockReload
    \/ LockReader

LockSpec == InitLock /\ [][NextLock]_vars

\* C17: a task that awaits a probe or an event-sink append holds neither
\* the status-map lock nor the runner-handle-map lock: the reconciliation
\* has dropped both guards when its re-sweep starts, and the status-map
\* write guard is held by main, a runner or a sweep only between the
\* acquisition for its insertions and the end of them, and by the
\* reconciliation while it computes its lists.
C17_NoLockAcrossIo ==
    /\ \A t \in LockTasks :
          lock_pc[t] \in IoPcs
              => (~Holds(t, "results") /\ ~Holds(t, "tasks"))
    /\ \A t \in LockTasks :
          lock_writer["results"] = t
              => lock_pc[t] \in InsertPcs \cup {"apply_lists"}
    /\ \A t \in LockTasks :
          lock_writer["tasks"] = t
              => lock_pc[t] \in {"start_insert", "apply_results_lock",
                                 "apply_lists"}

\* the reconciliation's re-sweep is probing while a runner holds the
\* status-map write guard for its insertion
C17_Witness ==
    /\ lock_pc["reload"] = "re_io"
    /\ \E r \in RunnerTasks :
          lock_pc[r] = "insert" /\ lock_writer["results"] = r
    /\ ~Holds("reload", "results")
    /\ ~Holds("reload", "tasks")

\* ------------------------------------------------------ the bucket view
\* NUM_BUCKETS with one bucket fewer
NUM_BUCKETS_OneLess == 30 - 1

\* db::NUM_BUCKETS
NUM_BUCKETS == 30

\* db::TimeRange
TimeRanges == {"30m", "1h", "3h", "8h", "24h", "7d", "30d"}

\* TimeRange::as_duration, in seconds
as_duration(range) ==
    CASE range = "30m" -> 30 * 60
      [] range = "1h"  -> 3600
      [] range = "3h"  -> 3 * 3600
      [] range = "8h"  -> 8 * 3600
      [] range = "24h" -> 24 * 3600
      [] range = "7d"  -> 7 * 86400
      [] range = "30d" -> 30 * 86400

\* the longest events list passed to compute_bucket_statuses
MaxEvents == 2

\* Utc::now() when get_uptime_events computes since, in seconds, and the
\* time that can pass until compute_bucket_statuses reads the clock again
QueryTime == 30 * 86400 + 7200
ClockSteps == {0, 1}

\* the ages of the stored events at the time of the query: the newest
\* instant, the full shortest range, one bucket of the longest range
EventAges == {0, 1800, 86400}

\* db::UptimeEvent
UptimeEvents == [ts : {QueryTime - a : a \in EventAges}, success : BOOLEAN]

\* the slices of events passed to compute_bucket_statuses, and the rows a
\* table can hold for one endpoint
EventLists == UNION {[1..k -> UptimeEvents] : k \in 0..MaxEvents}
\* the slices of names the handlers pass: the names of the status map's
\* values, each once
NameLists ==
    {l \in UNION {[1..k -> Names] : k \in 0..Cardinality(Names)} :
        \A i, j \in 1..Len(l) : l[i] = l[j] => i = j}

\* ORDER BY ts ASC: e is placed after the rows that are not later than it
RECURSIVE InsertByTs(_, _)
InsertByTs(e, sorted) ==
    IF sorted = <<>> THEN <<e>>
    ELSE IF Head(sorted).ts <= e.ts
         THEN <<Head(sorted)>> \o InsertByTs(e, Tail(sorted))
         ELSE <<e>> \o sorted

RECURSIVE OrderByTs(_)
OrderByTs(evs) ==
    IF evs = <<>> THEN <<>>
    ELSE InsertByTs(Head(evs), OrderByTs(Tail(evs)))

\* get_uptime_events on a table holding the rows stored for the endpoint:
\* WHERE ts >= since ORDER BY ts ASC
get_uptime_events(stored, range, now) ==
    LET since == now - as_duration(range)
    IN  OrderByTs(SelectSeq(stored, LAMBDA e : e.ts >= since))

\* bucket_duration with the range divided into one part more
bucket_duration_OneMore(range) == as_duration(range) \div (NUM_BUCKETS + 1)

\* compute_bucket_statuses: bucket_duration
bucket_duration(range) == as_duration(range) \div NUM_BUCKETS

\* compute_bucket_statuses: bucket_start and bucket_end of bucket i (from 0)
bucket_start(range, now, i) == now - as_duration(range) + bucket_duration(range) * i
bucket_end(range, now, i) == bucket_start(range, now, i) + bucket_duration(range)

\* compute_bucket_statuses: the indices of the evs the filter keeps
BucketEvents(evs, range, now, i) ==
    {j \in 1..Len(evs) :
        /\ evs[j].ts >= bucket_start(range, now, i)
        /\ evs[j].ts < bucket_end(range, now, i)}

Successes(evs, js) == Cardinality({j \in js : evs[j].success})

\* BucketColor with the mixed bucket taken for a failed one
BucketColor_NoYellow(successes, total) ==
    IF total = 0 THEN "gray"
    ELSE IF successes = total THEN "green"
    ELSE "red"

\* compute_bucket_statuses: the status of a bucket from its counts
BucketColor(successes, total) ==
    IF total = 0 THEN "gray"
    ELSE IF successes = total THEN "green"
    ELSE IF successes = 0 THEN "red"
    ELSE "yellow"

\* compute_bucket_statuses: vec![BucketStatus::Gray; NUM_BUCKETS] and the
\* loop that sets every element
compute_bucket_statuses(evs, range, now) ==
    [i \in 1..NUM_BUCKETS |->
        LET js == BucketEvents(evs, range, now, i - 1)
        IN  BucketColor(Successes(evs, js), Cardinality(js))]

\* a call of compute_bucket_statuses or of get_all_endpoint_buckets is about
\* to be made, for every range and every slice of names
InitBucket ==
    /\ SupervisorIdle
    /\ RetryIdle
    /\ LockIdle
    /\ FnIdle
    /\ db_pool = TRUE
    /\ state = EmptyMap
    /\ events = [n \in Names |-> <<>>]
    /\ timer_fires = 0
    /\ time_range \in TimeRanges
    /\ endpoint_names \in NameLists
    /\ bucket_todo = <<>>
    /\ bucket_result = EmptyMap
    /\ bucket_events = <<>>
    /\ bucket_now = 0
    /\ buckets = <<>>
    /\ bucket_pc = "call"

\* compute_bucket_statuses(&events, range) called on any list of events
ComputeDirect ==
    /\ bucket_pc = "call"
    /\ \E evs \in EventLists, step \in ClockSteps :
          /\ bucket_events' = evs
          /\ bucket_now' = QueryTime + step
          /\ buckets' = compute_bucket_statuses(evs, time_range, QueryTime + step)
    /\ bucket_pc' = "computed"
    /\ UNCHANGED <<sup_vars, db_pool, state, events, timer_fires, retry_vars,
                   lock_vars, fn_vars, time_range, endpoint_names, bucket_todo,
                   bucket_result>>

\* get_all_endpoint_buckets: let mut result = HashMap::new()
BucketsEnter ==
    /\ bucket_pc = "call"
    /\ bucket_pc' = "for"
    /\ bucket_todo' = endpoint_names
    /\ bucket_result' = EmptyMap
    /\ UNCHANGED <<sup_vars, db_pool, state, events, timer_fires, retry_vars,
                   lock_vars, fn_vars, time_range, endpoint_names, bucket_events,
                   bucket_now, buckets>>

\* get_all_endpoint_buckets: one pass of the for loop whose query succeeds
BucketsQuery ==
    /\ bucket_pc = "for"
    /\ bucket_todo # <<>>
    /\ \E stored \in EventLists, step \in ClockSteps :
          LET evs == get_uptime_events(stored, time_range, QueryTime)
              bs == compute_bucket_statuses(evs, time_range, QueryTime + step)
          IN  /\ bucket_events' = evs
              /\ bucket_now' = QueryTime + step
              /\ buckets' = bs
              /\ bucket_result' = MapInsert(bucket_result, Head(bucket_todo), bs)
    /\ bucket_todo' = Tail(bucket_todo)
    /\ UNCHANGED <<sup_vars, db_pool, state, events, timer_fires, retry_vars,
                   lock_vars, fn_vars, time_range, endpoint_names, bucket_pc>>

\* get_all_endpoint_buckets: get_uptime_events(..).await? on a failing
\* query returns the error and drops result
BucketsQueryFails ==
    /\ bucket_pc = "for"
    /\ bucket_todo # <<>>
    /\ bucket_pc' = "err"
    /\ bucket_result' = EmptyMap
    /\ UNCHANGED <<sup_vars, db_pool, state, events, timer_fires, retry_vars,
                   lock_vars, fn_vars, time_range, endpoint_names, bucket_todo,
                   bucket_events, bucket_now, buckets>>

\* get_all_endpoint_buckets: Ok(result)
BucketsReturn ==
    /\ bucket_pc = "for"
    /\ bucket_todo = <<>>
    /\ bucket_pc' = "ok"
    /\ UNCHANGED <<sup_vars, db_pool, state, events, timer_fires, retry_vars,
                   lock_vars, fn_vars, time_range, endpoint_names, bucket_todo,
                   bucket_result, bucket_events, bucket_now, buckets>>

NextBucket ==
    \/ ComputeDirect
    \/ BucketsEnter
    \/ BucketsQuery
    \/ BucketsQueryFails
    \/ BucketsReturn

BucketSpec == InitBucket /\ [][NextBucket]_vars

\* the names of the slice
Requested == {endpoint_names[i] : i \in 1..Len(endpoint_names)}

\* get_all_endpoint_buckets has returned, with Ok or with Err
BucketsReturned == bucket_pc \in {"ok", "err"}

BucketTotal(i) ==
    Cardinality(BucketEvents(bucket_events, time_range, bucket_now, i - 1))
BucketSuccesses(i) ==
    Successes(bucket_events, BucketEvents(bucket_events, time_range, bucket_now, i - 1))

\* C20: in every return of compute_bucket_statuses a bucket with k events
\* of which s succeeded is gray iff k = 0, green iff s = k > 0, red iff
\* s = 0 < k and yellow iff 0 < s < k, and its status is one of the four.
C20_BucketClassification ==
    \A i \in 1..Len(buckets) :
        LET k == BucketTotal(i)
            s == BucketSuccesses(i)
        IN  /\ buckets[i] \in {"gray", "green", "red", "yellow"}
            /\ buckets[i] = "gray" <=> k = 0
            /\ buckets[i] = "green" <=> (s = k /\ k > 0)
            /\ buckets[i] = "red" <=> (s = 0 /\ 0 < k)
            /\ buckets[i] = "yellow" <=> (0 < s /\ s < k)

\* a return with a mixed bucket of two events and
\* an empty bucket beside it
C20_Witness ==
    /\ \E i \in 1..Len(buckets) :
          buckets[i] = "yellow" /\ BucketTotal(i) = 2 /\ BucketSuccesses(i) = 1
    /\ \E i \in 1..Len(buckets) : buckets[i] = "gray" /\ BucketTotal(i) = 0

\* ------------------------------------------------------ the sorted read
\* Names are kept as their sequences of ASCII codes here, so that the
\* lower-casing and the byte order of Strings are computed: B, _, a, b and
\* two-letter names, among them two that differ only by case.
SortNames == {<<66>>, <<95>>, <<97>>, <<98>>, <<66, 97>>, <<97, 66>>,
              <<97, 98>>, <<98, 95>>}

\* the largest status map read
MaxKeys == 3

\* to_lowercase that leaves every character alone
to_lowercase_CaseSensitive(s) == s

\* str::to_lowercase on ASCII text: A..Z become a..z
to_lowercase(s) ==
    [i \in 1..Len(s) |-> IF s[i] >= 65 /\ s[i] <= 90 THEN s[i] + 32 ELSE s[i]]

\* Ord for String: a.cmp(&b) is Less or Equal, by bytes and then by length
RECURSIVE StrLeq(_, _)
StrLeq(a, b) ==
    IF a = <<>> THEN TRUE
    ELSE IF b = <<>> THEN FALSE
    ELSE IF Head(a) # Head(b) THEN Head(a) < Head(b)
    ELSE StrLeq(Tail(a), Tail(b))

\* sort_by(|a, b| a.name.to_lowercase().cmp(&b.name.to_lowercase())): the
\* sort is stable, r goes behind the results that compare Less or Equal
RECURSIVE InsertByName(_, _)
InsertByName(r, done) ==
    IF done = <<>> THEN <<r>>
    ELSE IF StrLeq(to_lowercase(Head(done).name), to_lowercase(r.name))
         THEN <<Head(done)>> \o InsertByName(r, Tail(done))
         ELSE <<r>> \o done

RECURSIVE sort_by_name(_)
sort_by_name(rs) ==
    IF rs = <<>> THEN <<>>
    ELSE InsertByName(rs[Len(rs)], sort_by_name(SubSeq(rs, 1, Len(rs) - 1)))

\* the orders in which results.values() can yield the map's values
ValuesOrders(results) ==
    {o \in [1..Cardinality(DOMAIN results) -> DOMAIN results] :
        \A i, j \in DOMAIN o : o[i] = o[j] => i = j}

\* a status map as the runners and sweeps fill it, keyed by result.name,
\* is about to be read
InitSort ==
    /\ SupervisorIdle
    /\ RetryIdle
    /\ LockIdle
    /\ BucketIdle
    /\ db_pool = FALSE
    /\ \E keys \in {K \in SUBSET SortNames : Cardinality(K) <= MaxKeys} :
          \E up \in [keys -> BOOLEAN] :
              state = [k \in keys |-> [name |-> k, is_up |-> up[k]]]
    /\ events = [n \in Names |-> <<>>]
    /\ timer_fires = 0
    /\ fn_pc = "call"
    /\ fn_args = <<>>
    /\ fn_ret = <<>>

\* get_sorted_results: state.read().await, results.values().cloned()
\* .collect(), sorted.sort_by(..) and the return
SortedRead ==
    /\ fn_pc = "call"
    /\ \E o \in ValuesOrders(state) :
          LET values == [i \in DOMAIN o |-> state[o[i]]]
          IN  /\ fn_args' = values
              /\ fn_ret' = sort_by_name(values)
    /\ fn_pc' = "returned"
    /\ UNCHANGED <<sup_vars, db_pool, state, events, timer_fires, retry_vars,
                   lock_vars, bucket_vars>>

SortSpec == InitSort /\ [][SortedRead]_vars

\* the lower-cased name, as the claim reads it
LowerCased(s) ==
    [i \in DOMAIN s |-> IF s[i] \in 65..90 THEN s[i] + 32 ELSE s[i]]

\* C21: get_sorted_results returns exactly one result for each key of the
\* status map, the result stored under that key; the returned results are
\* ordered non-decreasingly by lower-cased name; the call leaves the status
\* map unchanged.
C21_SortedSnapshot ==
    /\ [](fn_pc = "returned" =>
             /\ Len(fn_ret) = Cardinality(DOMAIN state)
             /\ \A k \in DOMAIN state :
                   Cardinality({i \in 1..Len(fn_ret) : fn_ret[i] = state[k]}) = 1
             /\ \A i \in 1..Len(fn_ret) : \A j \in i..Len(fn_ret) :
                   StrLeq(LowerCased(fn_ret[i].name), LowerCased(fn_ret[j].name)))
    /\ [][state' = state]_vars

\* three results were returned in another order than values() gave them,
\* an upper-case name behind a lower-case one, and two names that differ
\* only by case side by side
C21_Witness ==
    /\ fn_pc = "returned"
    /\ Len(fn_ret) = 3
    /\ fn_ret # fn_args
    /\ \E i \in 1..2 : fn_ret[i].name = <<97>> /\ fn_ret[i + 1].name = <<66>>
    /\ \E i \in 1..2 :
          /\ fn_ret[i].name # fn_ret[i + 1].name
          /\ LowerCased(fn_ret[i].name) = LowerCased(fn_ret[i + 1].name)

\* ------------------------------------------------- failing sink appends
\* AfterFailedAppend that gives up the rest of the loop
AfterFailedAppend_Abort(todo) == <<>>

\* the for loop over the results after an insert_uptime_event that returned
\* Err: tracing::warn! and on to the next result
AfterFailedAppend(todo) == Tail(todo)

\* initial_check: a db::insert_uptime_event of the for loop fails
InitialAppendFails ==
    /\ main_pc = "initial_append"
    /\ main_todo # <<>>
    /\ main_todo' = AfterFailedAppend(main_todo)
    /\ UNCHANGED <<config, db_pool, reload_interval, main_pc, main_results, state,
                   events, runner_vars, super_vars, tick_vars, chan_vars,
                   last_read, aux_vars>>

\* spawn_endpoint_checker: check_endpoint(..).await, then the
\* db::insert_uptime_event fails and is logged
RunnerAppendFails(r) ==
    /\ r \in DOMAIN runners
    /\ runners[r].pc = "probe"
    /\ db_pool
    /\ SetRunner(r, "write")
    /\ UNCHANGED <<main_vars, state, events, fired, timer_fires, super_vars,
                   tick_vars, chan_vars, last_read, aux_vars>>

\* a db::insert_uptime_event of a reload sweep's for loop fails
SweepAppendFails(at) ==
    /\ reload_pc = at
    /\ append_todo # <<>>
    /\ append_todo' = AfterFailedAppend(append_todo)
    /\ UNCHANGED <<main_vars, state, events, runner_vars, super_vars, reload_pc,
                   reload_count, load_error, new_config, diff, check_results,
                   chan_vars, last_read, aux_vars>>

\* The runs checked for failing appends: the runs checked for liveness that
\* have a backend, whose inserts can fail at any time.
InitSink ==
    /\ InitLive
    /\ db_pool

NextSink ==
    \/ NextLive
    \/ InitialAppendFails
    \/ \E r \in DOMAIN runners : RunnerAppendFails(r)
    \/ SweepAppendFails("eq_store")
    \/ SweepAppendFails("re_store")

SinkSpec == InitSink /\ [][NextSink]_vars

\* C22: a failed event-sink append changes nothing but the position in the
\* loop: a runner whose insert failed is at its status write like one whose
\* insert succeeded, and the step that leaves the status write stores the
\* outcome and takes an un-cancelled runner to its interval wait; a sweep
\* whose insert failed goes on to the next result with its results intact,
\* and its write step stores every result of the sweep.
C22_FailedAppendOnlyLogged ==
    [][/\ \A r \in DOMAIN runners :
             /\ (runners[r].pc = "probe" /\ runners'[r].pc # "probe")
                   => (runners'[r].pc = "write" /\ state' = state)
             /\ (runners[r].pc = "write" /\ runners'[r].pc # "write")
                   => /\ runners[r].name \in DOMAIN state'
                      /\ state'[runners[r].name] =
                            check_endpoint(runners[r].name, runners[r].endpoint)
                      /\ r \notin cancelled => runners'[r].pc = "wait"
       /\ (reload_pc \in {"eq_store", "re_store"} /\ append_todo # <<>>
              /\ append_todo' # append_todo /\ events' = events)
             => /\ append_todo' = Tail(append_todo)
                /\ check_results' = check_results
                /\ reload_pc' = reload_pc
       /\ (reload_pc \in {"eq_store", "re_store"} /\ reload_pc' # reload_pc)
             => \A i \in 1..Len(check_results) :
                   /\ check_results[i].name \in DOMAIN state'
                   /\ state'[check_results[i].name] = check_results[i]
       /\ (main_pc = "initial_append" /\ main_todo # <<>>
              /\ main_todo' # main_todo /\ events' = events)
             => /\ main_todo' = Tail(main_todo)
                /\ main_results' = main_results
                /\ main_pc' = main_pc
       /\ (main_pc = "initial_append" /\ main_pc' # main_pc)
             => \A i \in 1..Len(main_results) :
                   /\ main_results[i].name \in DOMAIN state'
                   /\ state'[main_results[i].name] = main_results[i]
      ]_vars

\* after a reload every insert for one endpoint has failed, in the sweep and
\* in its runner's ticks: the log has no event for it, the status map has its
\* outcome, its runner is in its interval wait after a later tick, and the
\* other endpoint of the same sweep has its events
C22_Witness ==
    /\ Quiescent
    /\ reload_count > 0
    /\ timer_fires > 0
    /\ \E n \in DOMAIN state, r \in DOMAIN runners :
          /\ events[n] = <<>>
          /\ runners[r].name = n
          /\ runners[r].pc = "wait"
          /\ r \notin cancelled
    /\ \E n \in DOMAIN state : Len(events[n]) >= 2

\* ------------------------------------------------ validated descriptors
\* C23: Config::load fails for every file in which some endpoint has
\* timeout >= interval and succeeds for every parsed file without such an
\* endpoint, whatever warnings it has; so the descriptors of the
\* configuration snapshot, of a configuration being applied and of every
\* runner ever spawned have timeout < interval.
C23_TimeoutBelowInterval ==
    /\ \A content \in FileContents :
          content.kind = "toml" =>
              (ConfigLoad(content).ok <=>
                  \A n \in DOMAIN content.endpoints :
                      content.endpoints[n].timeout < content.endpoints[n].interval)
    /\ \A n \in DOMAIN current_endpoints :
          current_endpoints[n].timeout < current_endpoints[n].interval
    /\ \A n \in DOMAIN new_config :
          new_config[n].timeout < new_config[n].interval
    /\ \A r \in DOMAIN runners :
          runners[r].endpoint.timeout < runners[r].endpoint.interval

\* a reload was refused by the validation while runners spawned from a
\* configuration with warnings are registered
C23_Witness ==
    /\ reload_pc = "select"
    /\ reload_count > 0
    /\ load_error = "validation"
    /\ DOMAIN runners # {}
    /\ validate_warnings(current_endpoints) # {}

\* ------------------------------------------------- the endpoint identifier
\* Ulid::to_string: the length of the Crockford base-32 text
ULID_LEN == 26

\* the width kept of the 64 bits of Hasher::finish
HashBits == 2

\* what is written into the two hashers: name.hash(..), and
\* "uptime-forge".hash(..) followed by name.hash(..)
HashStreams == {<<n>> : n \in Names} \cup {<<"uptime-forge", n>> : n \in Names}

\* DefaultHasher::new() has fixed keys, so finish() is one function of the
\* bytes written; which function is not specified by the standard library
Hashers == [HashStreams -> 0..(2 ^ HashBits - 1)]

\* finish with keys that change from call to call, as RandomState has them
finish_PerCallKeys(stream) ==
    (fn_args[stream] + Cardinality(fn_ret)) % (2 ^ HashBits)

\* Hasher::finish of a DefaultHasher::new() into which stream was written,
\* in the build whose hasher is fn_args
finish(stream) == fn_args[stream]

\* Ulid::to_string: n base-32 digits of value, most significant first
RECURSIVE ulid_to_string(_, _)
ulid_to_string(value, n) ==
    IF n = 0 THEN <<>>
    ELSE ulid_to_string(value \div 32, n - 1) \o <<value % 32>>

\* endpoint_id_from_name
endpoint_id_from_name(name) ==
    LET hash1 == finish(<<name>>)
        hash2 == finish(<<"uptime-forge", name>>)
        combined == hash1 * (2 ^ HashBits) + hash2
    IN  ulid_to_string(combined, ULID_LEN)

\* a process of some build; no identifier has been derived yet
InitId ==
    /\ SupervisorIdle
    /\ RetryIdle
    /\ LockIdle
    /\ BucketIdle
    /\ db_pool = TRUE
    /\ state = EmptyMap
    /\ events = [n \in Names |-> <<>>]
    /\ timer_fires = 0
    /\ fn_pc = "idle"
    /\ fn_args \in Hashers
    /\ fn_ret = {}

\* a call of endpoint_id_from_name, from insert_uptime_event or from
\* get_uptime_events; fn_ret collects the identifiers returned per name
IdCall ==
    /\ \E name \in Names :
          /\ fn_pc' = name
          /\ fn_ret' = fn_ret \cup {<<name, endpoint_id_from_name(name)>>}
    /\ UNCHANGED <<sup_vars, db_pool, state, events, timer_fires, retry_vars,
                   lock_vars, bucket_vars, fn_args>>

IdSpec == InitId /\ [][IdCall]_vars

MaxTriggered == 2

\* a recv arm that takes the signal and goes back to the select
TriggerRecv_DropsSignal ==
    /\ reload_pc = "select"
    /\ reload_chan > 0
    /\ reload_count < MaxTriggered
    /\ reload_chan' = reload_chan - 1
    /\ UNCHANGED <<main_vars, state, events, runner_vars, super_vars, tick_vars,
                   blocked_senders, last_read, aux_vars>>

\* select!: the reload_rx.recv() arm, starting a reload tick
TriggerRecv ==
    /\ reload_pc = "select"
    /\ reload_chan > 0
    /\ reload_count < MaxTriggered
    /\ reload_pc' = "load"
    /\ reload_count' = reload_count + 1
    /\ load_error' = "none"
    /\ reload_chan' = reload_chan - 1
    /\ UNCHANGED <<main_vars, state, events, runner_vars, super_vars, new_config,
                   diff, check_results, append_todo, blocked_senders, last_read, aux_vars>>

\* automatic reload is disabled: only POST /reload starts a reload tick
InitTrigger ==
    /\ Init
    /\ reload_interval = 0

NextTrigger ==
    \/ MainNext
    \/ TriggerRecv
    \/ TickNext
    \/ ReloadRequest
    \/ SenderResume

TriggerSpec ==
    /\ InitTrigger
    /\ [][NextTrigger]_vars
    /\ WF_vars(MainNext)
    /\ WF_vars(TriggerRecv)
    /\ WF_vars(TickNext)

\* C25 as claimed: at most one reload signal is pending at any time, counting
\* the signal in the channel's buffer and the signals of the trigger_reload
\* calls that were made while it was queued.
C25_AtMostOnePending == reload_chan + blocked_senders <= 1

\* C26: a signal accepted by the reload channel (a trigger_reload call that
\* returned success, at once or after its suspended send resumed) is
\* eventually received by the reload loop, also when it was accepted while a
\* reload tick was running; the receipt starts a reload tick, and every
\* reload tick goes on to Config::load.
C26_AcceptedTriggerServed ==
    /\ \A k \in 0..(MaxTriggered - 1) :
          (reload_chan > 0 /\ reload_count = k) ~> (reload_count > k)
    /\ [][reload_count' # reload_count
            => (reload_chan' = reload_chan - 1 /\ reload_pc' = "load")]_vars
    /\ (reload_pc = "load") ~> (reload_pc # "load")

\* a signal was accepted while the first reload tick is in its re-sweep
C26_Witness ==
    /\ reload_count = 1
    /\ reload_pc \in {"re_store", "re_write"}
    /\ reload_chan = 1

\* -------------------------------------------------------- reconciliation
\* the names of the runners other than the one registered in the handle map
\* that have not been cancelled
LiveStrays ==
    {runners[r].name : r \in {t \in DOMAIN runners :
        /\ t \notin cancelled
        /\ (runners[t].name \notin DOMAIN active_tasks
            \/ active_tasks[runners[t].name] # t)}}

\* C27: the step of a reconciliation that holds both write locks leaves, for
\* each changed endpoint, the old token cancelled and out of the handle map,
\* no status entry, and in the handle map a fresh un-cancelled token whose
\* newly spawned runner has the new descriptor; the old token is cancelled
\* before the replacement exists, so no name ever has an un-cancelled runner
\* besides the registered one.
C27_ChangedEndpointReplaced ==
    /\ [](LiveStrays = {})
    /\ [][(reload_pc = "apply" /\ reload_pc' # "apply") =>
            \A n \in Changed(current_endpoints, new_config) :
                /\ n \in DOMAIN active_tasks
                /\ active_tasks[n] \in cancelled'
                /\ \A m \in DOMAIN active_tasks' : active_tasks'[m] # active_tasks[n]
                /\ n \notin DOMAIN state'
                /\ n \in DOMAIN active_tasks'
                /\ active_tasks'[n] \notin DOMAIN runners
                /\ active_tasks'[n] \notin cancelled'
                /\ active_tasks'[n] \in DOMAIN runners'
                /\ runners'[active_tasks'[n]] = NewRunner(n, new_config[n])
                /\ runners'[active_tasks'[n]].endpoint
                      # runners[active_tasks[n]].endpoint]_vars

\* a reconciliation has just replaced the runner of a changed endpoint that
\* had a status entry: the old runner, cancelled, is in the middle of a tick
C27_Witness ==
    /\ reload_pc = "re_sweep"
    /\ \E n \in diff.changed :
          /\ n \notin DOMAIN state
          /\ \E old \in cancelled :
                /\ runners[old].name = n
                /\ runners[old].pc = "write"
                /\ runners[old].endpoint = current_endpoints[n]
                /\ runners[active_tasks[n]].endpoint = new_config[n]

C29_SnapshotFollowsReconciliation ==
    /\ [][(reload_pc \in {"apply", "re_sweep", "re_store"} /\ reload_pc' = "select") =>
            /\ current_endpoints' = new_config
            /\ AfterLoad(ConfigLoad([kind |-> "toml", endpoints |-> new_config]),
                         current_endpoints') = "eq_sweep"]_vars
    /\ [][(reload_pc # "not_started" /\ current_endpoints' # current_endpoints) =>
            /\ reload_pc' = "select"
            /\ reload_pc = "re_store" \/ (reload_pc = "apply" /\ new_config = EmptyMap)
            /\ load_error = "none"]_vars
    /\ [][(reload_pc = "load" /\ reload_pc' = "apply") =>
            new_config' # current_endpoints]_vars
    /\ [][(reload_pc = "load" /\ load_error' # "none") =>
            (reload_pc' = "select" /\ current_endpoints' = current_endpoints)]_vars

\* the tick after a reconciliation loaded the same configuration and is on
\* the equivalence path
C29_Witness ==
    /\ reload_count = 2
    /\ reload_pc = "eq_store"
    /\ diff # NoDiff
    /\ new_config = current_endpoints
    /\ current_endpoints # config

\* the tokens of the runners bound to name n
RunnersOf(rs, n) == {t \in DOMAIN rs : rs[t].name = n}

\* C30: from the start of a reconciliation to its end, every step of the
\* program leaves each unchanged endpoint's token in the handle map, not
\* cancelled, creates no runner for it and does not set its runner back, and
\* keeps its status entry; the entry exists during the whole reconciliation.
C30_UnchangedLeftAlone ==
    /\ [](reload_pc \in {"apply", "re_sweep", "re_store"} =>
            \A n \in Unchanged(current_endpoints, new_config) :
                /\ n \in DOMAIN state
                /\ n \in DOMAIN active_tasks
                /\ active_tasks[n] \notin cancelled)
    /\ [][(reload_pc \in {"apply", "re_sweep", "re_store"}) =>
            \A n \in Unchanged(current_endpoints, new_config) :
                /\ n \in DOMAIN active_tasks'
                /\ active_tasks'[n] = active_tasks[n]
                /\ active_tasks[n] \notin cancelled'
                /\ RunnersOf(runners', n) = RunnersOf(runners, n)
                /\ runners'[active_tasks[n]].endpoint = runners[active_tasks[n]].endpoint
                /\ ((runners[active_tasks[n]].pc # "probe"
                        /\ runners'[active_tasks[n]].pc = "probe")
                       => active_tasks[n] \in fired)
                /\ (n \in DOMAIN state')]_vars

\* a reconciliation that replaced one endpoint is in its re-sweep while the
\* runner of the unchanged endpoint, spawned at startup, waits for its timer
C30_Witness ==
    /\ reload_pc = "re_store"
    /\ diff.changed # {}
    /\ \E n \in diff.unchanged :
          /\ active_tasks[n] < Cardinality(DOMAIN config) + 1
          /\ runners[active_tasks[n]].pc = "wait"
          /\ n \in DOMAIN state

\* C31 as claimed: once a reconciliation that changed an endpoint's
\* descriptor has completed and every cancelled runner of the endpoint has
\* terminated, the endpoint's status entry is an outcome of the new
\* descriptor.
C31_StatusFromNewDescriptor ==
    (reload_pc = "select" /\ main_pc \in {"bind", "serve"}) =>
        \A n \in diff.changed \cap DOMAIN state :
            (\A r \in RunnersOf(runners, n) : r \in cancelled => runners[r].pc = "done")
                => state[n].endpoint = current_endpoints[n]

\* ------------------------------------------------ waiting for the locks
\* the lock a task is waiting for at its position, "-" when it waits for none
WaitsFor(t) ==
    CASE lock_pc[t] \in {"initial_lock", "lock", "eq_lock", "apply_results_lock",
                         "re_lock", "read_lock"} -> "results"
      [] lock_pc[t] \in {"start_lock", "apply_tasks_lock"} -> "tasks"
      [] OTHER -> "-"

\* a step in which task t is granted a lock
LockGrant(t) ==
    CASE t = "main" -> LockInitialLock \/ LockStartLock
      [] t = "reload" -> LockEqLock \/ LockApplyTasks \/ LockApplyResults \/ LockReLock
      [] t = "reader" -> LockReaderLock
      [] OTHER -> LockRunnerLock(t)

\* The runs checked for progress on the locks: a task that is ready to run is
\* polled (every probe, append and insertion returns), and a task queued on
\* an RwLock is granted it when the lock keeps becoming free (tokio's RwLock
\* serves its waiters first-in first-out).
LockLiveSpec ==
    /\ LockSpec
    /\ WF_vars(LockMain)
    /\ WF_vars(LockRunner)
    /\ WF_vars(LockReload)
    /\ WF_vars(LockReaderLock \/ LockReaderReturn)
    /\ \A t \in LockTasks : SF_vars(LockGrant(t))

\* C32: the reload loop takes the snapshot lock holding no lock, the
\* handle-map lock holding only the snapshot lock and the status-map lock
\* never while it waits for another one; runners and the reader hold no lock
\* but the status-map lock, main never holds two locks; and every task that
\* waits for a lock is eventually granted it.
C32_NoDeadlockOnLocks ==
    /\ [](/\ Holds("reload", "tasks") => Holds("reload", "snapshot")
          /\ Holds("reload", "results") => Holds("reload", "snapshot")
          /\ (Holds("reload", "results") /\ Holds("reload", "tasks"))
                => lock_pc["reload"] = "apply_lists"
          /\ \A t \in RunnerTasks \cup {"reader"} :
                ~Holds(t, "snapshot") /\ ~Holds(t, "tasks")
          /\ ~Holds("main", "snapshot")
          /\ ~(Holds("main", "tasks") /\ Holds("main", "results"))
          /\ \A t \in LockTasks : WaitsFor(t) # "-" => ~Holds(t, "results"))
    /\ \A t \in LockTasks :
          (WaitsFor(t) # "-") ~> (WaitsFor(t) = "-")

\* the reconciliation holds the snapshot and the handle-map locks and waits
\* for the status-map lock, which a runner holds while the other runner and
\* the reader wait for it too
C32_Witness ==
    /\ lock_pc["reload"] = "apply_results_lock"
    /\ Holds("reload", "tasks")
    /\ lock_writer["results"] = "runner1"
    /\ lock_pc["runner2"] = "lock"
    /\ lock_pc["reader"] = "read_lock"

\* ------------------------------------------------- the ticks of a runner
\* the positions of a tick in the order the runner goes through them
TickOrder == <<"check_endpoint", "for", "insert_uptime_event", "write", "select">>

TickPosition(pc) == CHOOSE i \in 1..Len(TickOrder) : TickOrder[i] = pc

\* C33: a runner is at one position of one tick at a time and goes through
\* the positions in order: its wait starts only out of the status write,
\* with the driver's outcome handed to the sink and written; a tick starts
\* only out of the wait, one tick for each elapsed sleep; and the sleep
\* elapses only during the wait, never while a tick, however many attempts
\* it takes, is in progress.
C33_TicksSequential ==
    /\ [][(retry_pc' # retry_pc /\ retry_pc' # "panicked") =>
            TickPosition(retry_pc') = (TickPosition(retry_pc) % Len(TickOrder)) + 1]_vars
    /\ [][(retry_pc' = "select" /\ retry_pc # "select") =>
            /\ retry_pc = "write"
            /\ Len(tick_ops') = 2
            /\ state'[NameSeq[1]] = last_result]_vars
    /\ [][(retry_pc' = "check_endpoint" /\ retry_pc # "check_endpoint") =>
            /\ retry_pc = "select"
            /\ timer_fires' = timer_fires + 1]_vars
    /\ [][timer_fires' # timer_fires =>
            /\ retry_pc = "select"
            /\ retry_pc' = "check_endpoint"
            /\ timer_fires' = timer_fires + 1]_vars

\* the tick after the first elapsed sleep took three attempts and has reached
\* its wait
C33_Witness ==
    /\ timer_fires = 1
    /\ retry_pc = "select"
    /\ Len(calls) = 3
    /\ Len(tick_ops) = 2

\* ------------------------------------------------ the answers to a probe
\* the status codes a response carries and an endpoint expects
StatusCodes == {200, 204, 301, 404, 500}

\* StatusEvent that accepts every 2xx status
StatusEvent_Any2xx(expected_status, status) ==
    IF status \in 200..299 THEN "status_expected" ELSE "status_other"

\* check_http: let is_up = status == endpoint.expected_status
StatusEvent(expected_status, status) ==
    IF status = expected_status THEN "status_expected" ELSE "status_other"

\* check_http on a response: result.status_code = Some(status)
check_http_response(name, expected_status, status) ==
    [check_http(name, ProbeEndpoint("http", 0, FALSE),
                StatusEvent(expected_status, status))
        EXCEPT !.status_code = status]

\* the records a lookup returns and an endpoint expects
DnsRecords == {"10.0.0.1", "10.0.0.2", "10.0.0.3"}

\* the values of Endpoint.expected_records
ExpectedRecords ==
    {<<>>, <<"10.0.0.1">>, <<"10.0.0.2">>, <<"10.0.0.1", "10.0.0.2">>}

\* DnsEvent that wants the resolved records to be the expected ones
DnsEvent_ExactMatch(expected, resolved) ==
    IF resolved = {} THEN "no_records"
    ELSE IF resolved = {expected[i] : i \in 1..Len(expected)} THEN "records_match"
    ELSE "records_differ"

\* check_dns: resolved_ips.is_empty() and
\* expected_records.iter().all(|expected| resolved_ips.contains(expected))
DnsEvent(expected, resolved) ==
    IF resolved = {} THEN "no_records"
    ELSE IF \A i \in 1..Len(expected) : expected[i] \in resolved THEN "records_match"
    ELSE "records_differ"

\* check_dns on a lookup that succeeded
check_dns_records(name, expected, resolved) ==
    check_dns(name, ProbeEndpoint("dns", 0, expected # <<>>),
              DnsEvent(expected, resolved))

\* texts of the error of TcpStream::connect: "refused", "Refused", "REFUSED",
\* "c refused", "reset", "refuse"
ConnectErrors ==
    {<<114, 101, 102, 117, 115, 101, 100>>,
     <<82, 101, 102, 117, 115, 101, 100>>,
     <<82, 69, 70, 85, 83, 69, 68>>,
     <<99, 32, 114, 101, 102, 117, 115, 101, 100>>,
     <<114, 101, 115, 101, 116>>,
     <<114, 101, 102, 117, 115, 101>>}

\* str::contains
contains(s, pat) ==
    \E i \in 0..(Len(s) - Len(pat)) : SubSeq(s, i + 1, i + Len(pat)) = pat

\* check_tcp: e.to_string().to_lowercase().contains("refused")
ConnectEvent(text) ==
    IF contains(to_lowercase(text), <<114, 101, 102, 117, 115, 101, 100>>)
    THEN "connect_refused" ELSE "connect_error"

\* check_tcp on a connect error: result.error = Some(e.to_string())
check_tcp_connect_error(name, text) ==
    [check_tcp(name, ProbeEndpoint("tcp", 0, FALSE), ConnectEvent(text))
        EXCEPT !.error = text]

\* one call of a primitive with the answer it meets
ProbeCalls ==
    {[fn |-> "check_http", expected_status |-> e, status |-> s] :
        e \in StatusCodes, s \in StatusCodes}
    \cup {[fn |-> "check_dns", expected |-> e, resolved |-> r] :
            e \in ExpectedRecords, r \in SUBSET DnsRecords}
    \cup {[fn |-> "check_tcp", event |-> ev] :
            ev \in TcpEvents \ {"connect_refused", "connect_error"}}
    \cup {[fn |-> "check_tcp", event |-> "connect", text |-> t] : t \in ConnectErrors}

InitProbe ==
    /\ SupervisorIdle
    /\ RetryIdle
    /\ LockIdle
    /\ BucketIdle
    /\ db_pool = FALSE
    /\ state = EmptyMap
    /\ events = [n \in Names |-> <<>>]
    /\ timer_fires = 0
    /\ fn_pc = "call"
    /\ fn_args \in ProbeCalls
    /\ fn_ret = NoCall

\* the primitive returns its outcome
ProbeReturn ==
    /\ fn_pc = "call"
    /\ fn_ret' =
          IF fn_args.fn = "check_http"
          THEN check_http_response(NameSeq[1], fn_args.expected_status, fn_args.status)
          ELSE IF fn_args.fn = "check_dns"
          THEN check_dns_records(NameSeq[1], fn_args.expected, fn_args.resolved)
          ELSE IF fn_args.event = "connect"
          THEN check_tcp_connect_error(NameSeq[1], fn_args.text)
          ELSE check_tcp(NameSeq[1], ProbeEndpoint("tcp", 0, FALSE), fn_args.event)
    /\ fn_pc' = "returned"
    /\ UNCHANGED <<sup_vars, db_pool, state, events, timer_fires, retry_vars,
                   lock_vars, bucket_vars, fn_args>>

ProbeSpec == InitProbe /\ [][ProbeReturn]_vars

\* C34: an HTTP probe that received a response records the response's status
\* code and is up exactly when the status equals expected_status; otherwise
\* it is down with error kind status_mismatch, also for a 2xx status.
C34_HttpStatusDecides ==
    (fn_pc = "returned" /\ fn_args.fn = "check_http") =>
        /\ fn_ret.status_code = fn_args.status
        /\ fn_ret.is_up <=> fn_args.status = fn_args.expected_status
        /\ fn_ret.is_up => fn_ret.error_type = "none"
        /\ ~fn_ret.is_up => fn_ret.error_type = "status_mismatch"

\* a response with status 200 to an endpoint that expects 204 was reported
\* down
C34_Witness ==
    /\ fn_pc = "returned"
    /\ fn_args.fn = "check_http"
    /\ fn_args.expected_status = 204
    /\ fn_args.status = 200
    /\ ~fn_ret.is_up
    /\ fn_ret.status_code = 200

\* C35 as claimed: a lookup that succeeds with no record is reported down
\* with error kind dns and the message "DNS resolution returned no records",
\* whatever records the endpoint expects.
C35_EmptyLookupIsDns ==
    (fn_pc = "returned" /\ fn_args.fn = "check_dns" /\ fn_args.resolved = {}) =>
        /\ ~fn_ret.is_up
        /\ fn_ret.error_type = "dns"
        /\ fn_ret.error = "DNS resolution returned no records"

\* C36: a lookup that returns records is up when the endpoint expects no
\* record, and otherwise exactly when every expected record is among the
\* resolved ones; a lookup that misses an expected record is down with error
\* kind dns_mismatch.
C36_ExpectedRecordsSubset ==
    (fn_pc = "returned" /\ fn_args.fn = "check_dns" /\ fn_args.resolved # {}) =>
        /\ fn_args.expected = <<>> => fn_ret.is_up
        /\ fn_ret.is_up <=>
              \A i \in 1..Len(fn_args.expected) : fn_args.expected[i] \in fn_args.resolved
        /\ fn_ret.is_up => fn_ret.error_type = "none"
        /\ ~fn_ret.is_up => fn_ret.error_type = "dns_mismatch"

\* a lookup that returned the expected record and two more was reported up
C36_Witness ==
    /\ fn_pc = "returned"
    /\ fn_args.fn = "check_dns"
    /\ fn_args.expected = <<"10.0.0.2">>
    /\ fn_args.resolved = DnsRecords
    /\ fn_ret.is_up

\* the error kind and the message of a TCP probe's outcome for every terminal
\* event but a connect error
TcpOutcome(ev) ==
    CASE ev \in {"no_addresses", "resolve_error"} -> <<FALSE, "dns">>
      [] ev = "connected" -> <<TRUE, "none">>
      [] ev = "write_failed" -> <<FALSE, "connection">>
      [] ev = "connect_timeout" -> <<FALSE, "timeout">>

\* C40 as claimed: every terminal event of a TCP probe has its one outcome,
\* and a connect error is tcp_refused exactly when its text contains
\* "refused".
C40_TcpOutcomeByEvent ==
    (fn_pc = "returned" /\ fn_args.fn = "check_tcp") =>
        IF fn_args.event = "connect"
        THEN /\ ~fn_ret.is_up
             /\ fn_ret.error_type =
                   IF contains(fn_args.text, <<114, 101, 102, 117, 115, 101, 100>>)
                   THEN "tcp_refused" ELSE "connection"
        ELSE /\ <<fn_ret.is_up, fn_ret.error_type>> = TcpOutcome(fn_args.event)
             /\ fn_args.event = "connect_timeout"
                   => fn_ret.error = "connection timed out"

\* C40: every terminal event of a TCP probe has its one outcome, and a
\* connect error is tcp_refused exactly when its text contains "refused" in
\* any letter case.
C40_TcpOutcomeByEventAnyCase ==
    (fn_pc = "returned" /\ fn_args.fn = "check_tcp") =>
        IF fn_args.event = "connect"
        THEN /\ ~fn_ret.is_up
             /\ fn_ret.error = fn_args.text
             /\ fn_ret.error_type =
                   IF contains(LowerCased(fn_args.text), <<114, 101, 102, 117, 115, 101, 100>>)
                   THEN "tcp_refused" ELSE "connection"
        ELSE /\ <<fn_ret.is_up, fn_ret.error_type>> = TcpOutcome(fn_args.event)
             /\ fn_args.event = "connect_timeout"
                   => fn_ret.error = "connection timed out"

\* a connect error whose text is "Refused" was reported as tcp_refused
C40_Witness ==
    /\ fn_pc = "returned"
    /\ fn_args.fn = "check_tcp"
    /\ fn_args.event = "connect"
    /\ fn_args.text = <<82, 101, 102, 117, 115, 101, 100>>
    /\ fn_ret.error_type = "tcp_refused"

\* ---------------------------------------------------- the bucket intervals
\* the events of the latest compute_bucket_statuses whose timestamp is in
\* [from, to)
EventsWithin(from, to) ==
    {j \in 1..Len(bucket_events) :
        bucket_events[j].ts >= from /\ bucket_events[j].ts < to}

\* C37: in every return of compute_bucket_statuses the 30 buckets are the
\* consecutive intervals of length range / 30 that start at now - range and
\* end at now, bucket 0 first; every event given to it with a timestamp in
\* [now - range, now) is in exactly one bucket and every other event in none;
\* a bucket is gray exactly when no event is in its interval.
C37_BucketsPartitionRange ==
    (bucket_pc # "call" /\ buckets # <<>>) =>
        LET range == as_duration(time_range)
            first == bucket_now - range
            len == range \div 30
        IN  /\ len * 30 = range
            /\ Len(buckets) = 30
            /\ \A i \in 0..29 :
                  /\ bucket_start(time_range, bucket_now, i) = first + i * len
                  /\ bucket_end(time_range, bucket_now, i) = first + (i + 1) * len
                  /\ buckets[i + 1] = "gray"
                        <=> EventsWithin(first + i * len, first + (i + 1) * len) = {}
            /\ bucket_end(time_range, bucket_now, 29) = bucket_now
            /\ \A j \in 1..Len(bucket_events) :
                  Cardinality({i \in 0..29 :
                      j \in BucketEvents(bucket_events, time_range, bucket_now, i)})
                    = IF j \in EventsWithin(first, bucket_now) THEN 1 ELSE 0

\* a return for the 30-minute range with one event exactly now - range old,
\* counted in bucket 0, and one event at now, counted in no bucket
C37_Witness ==
    /\ bucket_pc = "computed"
    /\ time_range = "30m"
    /\ Len(bucket_events) = 2
    /\ bucket_events[1].ts = bucket_now - 1800
    /\ bucket_events[2].ts = bucket_now
    /\ buckets[1] # "gray"
    /\ \A i \in 2..30 : buckets[i] = "gray"

\* ------------------------------------------------- substitute_env_vars
\* the characters of the texts: $ { } A a 1 _
TextChars == {36, 123, 125, 65, 97, 49, 95}

\* the longest text of which every value is substituted
MaxText == 5

\* longer texts: "${A}${A1}", "a${A}a${A}", "$A ${} ${a} ${1}" without its
\* blanks, "${${A}}"
LongTexts ==
    {<<36, 123, 65, 125, 36, 123, 65, 49, 125>>,
     <<97, 36, 123, 65, 125, 97, 36, 123, 65, 125>>,
     <<36, 65, 36, 123, 125, 36, 123, 97, 125, 36, 123, 49, 125>>,
     <<36, 123, 36, 123, 65, 125, 125>>}

Texts == UNION {[1..k -> TextChars] : k \in 0..MaxText} \cup LongTexts

\* the variables the environment can define: A and A1
EnvNames == {<<65>>, <<65, 49>>}

\* the environment of the process: a variable is undefined, holds bytes that
\* are not valid Unicode, or holds a text ("a" for A, "${A}" for A1)
Environments == [EnvNames -> {"undefined", "not_unicode", "value"}]

\* std::env::var: Ok(value) for a variable holding valid Unicode, Err(_) for
\* an undefined variable and for one whose value is not valid Unicode
env_var(env, name) ==
    IF name \in EnvNames /\ env[name] = "value"
    THEN [ok |-> TRUE, value |-> IF name = <<65>> THEN <<97>>
                                 ELSE <<36, 123, 65, 125>>]
    ELSE [ok |-> FALSE, value |-> <<>>]

\* the pattern with a name that may start with a digit
IsNameStart_AnyNameChar(c) == (c >= 65 /\ c <= 90) \/ c = 95 \/ (c >= 48 /\ c <= 57)

\* env_var_pattern: [A-Z_]
IsNameStart(c) == (c >= 65 /\ c <= 90) \/ c = 95

\* env_var_pattern: [A-Z0-9_]
IsNameChar(c) == IsNameStart(c) \/ (c >= 48 /\ c <= 57)

\* env_var_pattern: the end of the longest run of [A-Z0-9_] from position i
RECURSIVE NameEnd(_, _)
NameEnd(s, i) ==
    IF i <= Len(s) /\ IsNameChar(s[i]) THEN NameEnd(s, i + 1) ELSE i

\* env_var_pattern: the position of the } of a match of \$\{([A-Z_][A-Z0-9_]*)\}
\* that starts at position i, 0 when there is none
MatchAt(s, i) ==
    IF /\ i + 3 <= Len(s)
       /\ s[i] = 36
       /\ s[i + 1] = 123
       /\ IsNameStart(s[i + 2])
       /\ NameEnd(s, i + 2) <= Len(s)
       /\ s[NameEnd(s, i + 2)] = 125
    THEN NameEnd(s, i + 2)
    ELSE 0

\* Regex::replace_all from position i: the leftmost match is replaced by
\* std::env::var(..).unwrap_or_else(|_| String::new()) and the scan goes on
\* behind it; the replacement is not scanned again
RECURSIVE ReplaceFrom(_, _, _)
ReplaceFrom(env, s, i) ==
    IF i > Len(s) THEN <<>>
    ELSE IF MatchAt(s, i) # 0
    THEN LET got == env_var(env, SubSeq(s, i + 2, MatchAt(s, i) - 1))
         IN  (IF got.ok THEN got.value ELSE <<>>)
                 \o ReplaceFrom(env, s, MatchAt(s, i) + 1)
    ELSE <<s[i]>> \o ReplaceFrom(env, s, i + 1)

substitute_env_vars(env, input) == ReplaceFrom(env, input, 1)

\* a text is about to be substituted in some environment; the text is the
\* key of an endpoint as well
InitSubst ==
    /\ SupervisorIdle
    /\ RetryIdle
    /\ LockIdle
    /\ BucketIdle
    /\ db_pool = FALSE
    /\ state = EmptyMap
    /\ events = [n \in Names |-> <<>>]
    /\ timer_fires = 0
    /\ fn_pc = "call"
    /\ fn_args \in [env : Environments, input : Texts]
    /\ fn_ret = <<>>

\* substitute_env_vars returns; base_result copies the key of the endpoint
SubstReturn ==
    /\ fn_pc = "call"
    /\ fn_ret' = [text |-> substitute_env_vars(fn_args.env, fn_args.input),
                  name |-> base_result(fn_args.input,
                                       ProbeEndpoint("http", 0, FALSE)).name]
    /\ fn_pc' = "returned"
    /\ UNCHANGED <<sup_vars, db_pool, state, events, timer_fires, retry_vars,
                   lock_vars, bucket_vars, fn_args>>

SubstSpec == InitSubst /\ [][SubstReturn]_vars

\* position j of s closes an occurrence of ${NAME} that opens at position i
Occurrence(s, i, j) ==
    /\ i + 3 <= j
    /\ j <= Len(s)
    /\ s[i] = 36
    /\ s[i + 1] = 123
    /\ s[j] = 125
    /\ s[i + 2] \in (65..90) \cup {95}
    /\ \A k \in (i + 2)..(j - 1) : s[k] \in (65..90) \cup (48..57) \cup {95}

\* the value of a variable as the claim reads it: the empty text for an
\* undefined variable, the value of a defined one (255 stands for bytes
\* that are not valid Unicode)
ValueIfDefined(name) ==
    IF name \notin EnvNames \/ fn_args.env[name] = "undefined" THEN <<>>
    ELSE IF fn_args.env[name] = "not_unicode" THEN <<255>>
    ELSE IF name = <<65>> THEN <<97>> ELSE <<36, 123, 65, 125>>

\* the value of a variable that holds valid Unicode, the empty text for any
\* other variable
ValueIfUnicode(name) ==
    IF name \in EnvNames /\ fn_args.env[name] = "value"
    THEN (IF name = <<65>> THEN <<97>> ELSE <<36, 123, 65, 125>>)
    ELSE <<>>

\* the text that position i of s contributes when an occurrence of the
\* variable NAME is replaced by its value, read as the claim reads it
\* (as_claimed) or as the value of a variable holding valid Unicode
Piece(s, i, as_claimed) ==
    IF \E j \in 1..Len(s) : Occurrence(s, i, j)
    THEN LET name == SubSeq(s, i + 2, (CHOOSE j \in 1..Len(s) : Occurrence(s, i, j)) - 1)
         IN  IF as_claimed THEN ValueIfDefined(name) ELSE ValueIfUnicode(name)
    ELSE IF \E a, b \in 1..Len(s) : a < i /\ i <= b /\ Occurrence(s, a, b)
    THEN <<>>
    ELSE <<s[i]>>

RECURSIVE Pieces(_, _, _)
Pieces(s, i, as_claimed) ==
    IF i > Len(s) THEN <<>>
    ELSE Piece(s, i, as_claimed) \o Pieces(s, i + 1, as_claimed)

\* C38 as claimed: the result is the input with every occurrence of ${NAME}
\* replaced by the variable's value, or by the empty text when the variable
\* is undefined, and every other character kept; the outcome's name is the
\* key.
C38_SubstitutesDefinedVariables ==
    fn_pc = "returned" =>
        /\ fn_ret.text = Pieces(fn_args.input, 1, TRUE)
        /\ fn_ret.name = fn_args.input

\* C38: the result is the input with every occurrence of ${NAME} replaced by
\* the variable's value when the variable holds valid Unicode, and by the
\* empty text when it is undefined or holds other bytes; every other
\* character is kept and the inserted values are not substituted again; the
\* outcome's name is the key, unsubstituted.
C38_SubstitutesUnicodeVariables ==
    fn_pc = "returned" =>
        /\ fn_ret.text = Pieces(fn_args.input, 1, FALSE)
        /\ fn_ret.name = fn_args.input

\* "$A${}${a}${1}" came back unchanged, with A defined
C38_Witness ==
    /\ fn_pc = "returned"
    /\ fn_args.input = <<36, 65, 36, 123, 125, 36, 123, 97, 125, 36, 123, 49, 125>>
    /\ fn_args.env[<<65>>] = "value"
    /\ fn_ret.text = fn_args.input

\* ------------------------------------------ the attempts of every retries
\* an outcome no attempt has touched: down, with no error kind and no
\* message
Untouched(outcome) ==
    /\ ~outcome.is_up
    /\ outcome.error_type = "none"
    /\ outcome.error = "none"

\* C39 as claimed: for every retries value, U32Max included, check_endpoint
\* makes at least one attempt: it does not stop before the loop, and the
\* outcome it returns comes from an attempt and is not the untouched base
\* result.
C39_AtLeastOneAttempt ==
    /\ retry_pc # "panicked"
    /\ Returned =>
          /\ Len(calls) >= 1
          /\ ~Untouched(last_result)

\* the same for the retries values whose retries + 1 does not overflow
AttemptsBelowMax ==
    probe_endpoint.retries # U32Max => C39_AtLeastOneAttempt

====
